---- MODULE Spec2Model ----
(***************************************************************************)
(* TinyML_algo: the TinyFormer int8 encoder kernel, the DOT8 / exp-LUT /   *)
(* GEMV driver layer and the on-target equivalence self-tests.             *)
(*                                                                         *)
(* TLC's integers are 32-bit signed, so a C uint32_t is kept as a record   *)
(* [hi, lo] of two 16-bit halves (value = hi * 65536 + lo) and the C       *)
(* operators on it (<<, >>, |, casts) are computed on the halves.  Signed  *)
(* 8/16/32-bit C values are kept as mathematical integers in their range.  *)
(***************************************************************************)
EXTENDS Integers, Sequences, FiniteSets, TLC

VARIABLES
    flags,        \* build: the accelerator macros defined (USE_*_HW)
    \* ---- DOT8 trial (tests_dot8.c, dot8.c) ----
    a, b,         \* int8_t a[4], b[4]
    a_packed,     \* uint32_t a_packed
    b_packed,     \* uint32_t b_packed
    sw_dot,       \* int32_t sw_dot
    hw_dot,       \* int32_t hw_dot
    unpacked,     \* the four sign-extended lanes read back from a_packed
    repacked,     \* dot8_pack of the lanes read from b_packed
    pc_dot8,      \* position inside the trial
    \* ---- exp LUT probes (tests_lut.c, exp_lut.c, tinyformer.c) ----
    idx,          \* unsigned idx handed to exp_lut_hw
    v,            \* uint16_t v = exp_lut_hw(idx)
    x,            \* int16_t x handed to score_to_exp
    e_enc,        \* the encoder's score_to_exp(x) and the table index it used
    e_test,       \* the self-test's score_to_exp(x) and the index it passed on
    pc_lut,
    \* ---- saturating cast ----
    acc,          \* int32_t accumulator handed to saturate_int32_to_int8
    sat_enc,      \* result of the copy in tinyformer.c
    sat_demo,     \* result of the copy in demo_runner.c
    pc_sat,
    \* ---- encoder (tinyformer.c) and demo_run (demo_runner.c) ----
    trained,      \* 0: placeholder weights; t > 0: trained_weights.h number t
    q_buf, k_buf, v_buf,          \* static int8_t [S][D]
    attn_out,                     \* static int8_t [S][D]
    ffn_hidden,                   \* static int8_t [S][FFN]
    ffn_out,                      \* static int8_t [S][D]
    scores,                       \* static int32_t [S]
    exp_buf,                      \* static uint16_t [S]
    input,        \* the token matrix handed to the last tinyformer_encode call
    encoded,      \* demo_run's output matrix
    cksum,        \* demo_run's ENC_CKSUM
    calls,        \* tinyformer_encode calls since boot, saturating at 2
    log,          \* transcript: the last two runs (build, input, output, ENC_CKSUM)
    pc_enc,       \* position inside tinyformer_encode
    query,        \* the loop variable i of attention_single_head
    wrote,        \* working-buffer cells written so far by the current call
    qwrote,       \* scores / exp_buf cells written so far for the current query
    stale,        \* cells that were read before the call (or query) wrote them
    \* ---- GEMV engine, its driver (gemv.c) and its self-test (tests_gemv.c) ----
    gemv_dev,     \* the device: stream memories, cursors, latched CTRL bits, busy/done
    ref_x, ref_w, \* static int8_t ref_x[MAX_LEN], ref_w[MAX_OUT * MAX_LEN]
    ref_y, hw_y,  \* static int32_t ref_y[MAX_OUT], hw_y[MAX_OUT]
    run_len,      \* run_one's len
    run_out_dim,  \* run_one's out_dim
    run_bias,     \* the enable_bias argument of gemv_start
    run_no,       \* which of test_gemv's four run_one calls is in progress (1..4)
    seed,         \* selects the operand set of this test_gemv
    loop_i,       \* the loop index i of the driver routine in progress
    status,       \* the last value read from STATUS
    bus,          \* the register accesses of the driver routine last entered
    pc_gemv,      \* position inside run_one
    \* ---- the self-test entry points (tests_dot8.c, tests_gemv.c, tests_lut.c) ----
    test,         \* the entry point that is running or has returned
    invocation,   \* how many times it has been entered in this process
    lcg_state,    \* static uint32_t lcg_state of tests_dot8.c
    lcg,          \* static uint32_t lcg of tests_gemv.c
    iter,         \* the loop variable of test_dot8 (iter) or test_lut (i)
    ret,          \* <<the value returned>>, empty while the test runs
    uart,         \* the lines printed by this invocation
    checks,       \* the outcome of each comparison made by this invocation
    drawn,        \* per invocation, the operand sets it drew
    \* ---- one output row of a projection or of the first FFN layer ----
    mv_in,        \* the token in[0 .. D-1]
    mv_W,         \* the weights, one row W[0][0 .. D-1]
    mv_b,         \* the bias b[0]
    mv_out,       \* out[0] of matvec_i8_i32_acc
    mv_hidden,    \* hidden[s][d] of ffn_apply for the same row
    pc_mv

dot8Vars == <<a, b, a_packed, b_packed, sw_dot, hw_dot, unpacked, repacked, pc_dot8>>
lutVars == <<idx, v, x, e_enc, e_test, pc_lut>>
satVars == <<acc, sat_enc, sat_demo, pc_sat>>
bufVars == <<q_buf, k_buf, v_buf, attn_out, ffn_hidden, ffn_out, scores, exp_buf>>
useVars == <<query, wrote, qwrote, stale>>
encVars == <<trained, bufVars, input, encoded, cksum, calls, log, pc_enc, useVars>>
gemvVars == <<gemv_dev, ref_x, ref_w, ref_y, hw_y, run_len, run_out_dim, run_bias, run_no, seed,
              loop_i, status, bus, pc_gemv>>
testVars == <<test, invocation, lcg_state, lcg, iter, ret, uart, checks, drawn>>
mvVars == <<mv_in, mv_W, mv_b, mv_out, mv_hidden, pc_mv>>
vars == <<flags, dot8Vars, lutVars, satVars, encVars, gemvVars, testVars, mvVars>>

(***************************************************************************)
(* Bounds of the model.                                                    *)
(***************************************************************************)
\* Lanes are drawn from {-128, -1, 127} and 0 .. LaneSpan - 1.
LaneSpan == 1
\* Table indices are drawn from 0 .. 15 + IdxOver and a few large words.
IdxOver == 4
\* Scores are drawn from -ScoreSpan .. ScoreSpan and the int16 extremes.
ScoreSpan == 40
\* Accumulators are drawn from -SatSpan .. SatSpan and a few wide values.
SatSpan == 140
\* Encoder shapes, scaled down from TINYFORMER_S = 16, TINYFORMER_D = 32 and
\* TINYFORMER_FFN = 64 (tinyformer.h 14-16).
S == 2
D == 2
FFN == 3
\* Token matrices are InputOf(0) .. InputOf(MaxInput).
MaxInput == 3
\* Weight sets are 0 (the placeholders) .. MaxTrained.
MaxTrained == 2
\* The two sizes of the GEMV engine, scaled down: Dim32 stands for 32 and
\* Dim64 for 64.
Dim32 == 2
Dim64 == 3
\* Operand sets of the GEMV self-test are 0 .. MaxSeed.
MaxSeed == 3
\* gemv_start is tried with enable_bias in -1 .. MaxBiasArg.
MaxBiasArg == 2
NITER == 3           \* stands for NITER = 1000 of tests_dot8.c
MaxInvocations == 2  \* calls of a self-test in one process
\* tinyformer.h 14-15: the real sequence and row lengths, for the ranges of
\* sum_exp and of the accumulator.
TINYFORMER_S == 16
TINYFORMER_D == 32

(***************************************************************************)
(* C integer arithmetic.                                                   *)
(***************************************************************************)
Pow2(k) == 2 ^ k

\* (uint8_t)n : the low 8 bits of n.
U8(n) == n % 256

\* (int8_t)n for an integer n: low 8 bits, read as two's complement.
I8(n) == IF n % 256 >= 128 THEN (n % 256) - 256 ELSE n % 256

\* (uint16_t)n
U16(n) == n % 65536

\* (int16_t)n
I16(n) == IF n % 65536 >= 32768 THEN (n % 65536) - 65536 ELSE n % 65536

\* (uint32_t)n for n in the int32 range.
ToU32(n) == [hi |-> (n \div 65536) % 65536, lo |-> n % 65536]

\* (int32_t)u for a uint32_t u.
ToI32(u) == IF u.hi >= 32768 THEN (u.hi - 65536) * 65536 + u.lo
                             ELSE u.hi * 65536 + u.lo

\* u << k on uint32_t, 0 <= k < 32.
Shl32(u, k) ==
    IF k < 16
    THEN [hi |-> (u.hi * Pow2(k) + (u.lo * Pow2(k)) \div 65536) % 65536,
          lo |-> (u.lo * Pow2(k)) % 65536]
    ELSE [hi |-> (u.lo * Pow2(k - 16)) % 65536, lo |-> 0]

\* u >> k on uint32_t (logical), 0 <= k < 32.
Shr32(u, k) ==
    IF k < 16
    THEN [hi |-> u.hi \div Pow2(k),
          lo |-> (u.lo \div Pow2(k)) + (u.hi % Pow2(k)) * Pow2(16 - k)]
    ELSE [hi |-> 0, lo |-> u.hi \div Pow2(k - 16)]

\* Bitwise or of two 16-bit values, bit by bit.
RECURSIVE Or16(_, _)
Or16(m, n) ==
    IF m = 0 THEN n
    ELSE IF n = 0 THEN m
    ELSE (IF m % 2 = 1 \/ n % 2 = 1 THEN 1 ELSE 0) + 2 * Or16(m \div 2, n \div 2)

\* u | v on uint32_t.
Or32(u, w) == [hi |-> Or16(u.hi, w.hi), lo |-> Or16(u.lo, w.lo)]

\* (int8_t)u for a uint32_t u: the low byte, sign-extended.
I8ofU32(u) == I8(u.lo)

(***************************************************************************)
(* The linear-congruential generator of the self-tests (tests_dot8.c and   *)
(* tests_gemv.c): state * 1664525 + 1013904223 on uint32_t, in 16-bit      *)
(* halves.  1664525 = 25 * 65536 + 26125; 1013904223 = 15470 * 65536 +     *)
(* 62303.                                                                  *)
(***************************************************************************)
LcgMul == [hi |-> 25, lo |-> 26125]
LcgInc == [hi |-> 15470, lo |-> 62303]

\* lcg = lcg * 1664525u + 1013904223u
lcg_step(st) ==
    LET low == st.lo * LcgMul.lo
        sum == (low % 65536) + LcgInc.lo
    IN  [hi |-> ((low \div 65536) + st.hi * LcgMul.lo + st.lo * LcgMul.hi
                 + LcgInc.hi + (sum \div 65536)) % 65536,
         lo |-> sum % 65536]

\* (int8_t)(lcg >> 24)
lcg_sample(st) == I8(st.hi \div 256)

\* The state after n calls of lcg_next_int8 (st = st evaluates the state
\* reached so far before the next call is applied to it).
RECURSIVE LcgAfter(_, _)
LcgAfter(st, n) == IF st = st /\ n = 0 THEN st ELSE LcgAfter(lcg_step(st), n - 1)

\* The value returned by the n-th call of lcg_next_int8 from state st.
LcgDraw(st, n) == lcg_sample(LcgAfter(st, n))

\* static uint32_t lcg_state = 1u; static uint32_t lcg = 1u;
LcgSeed == [hi |-> 0, lo |-> 1]

\* The state on the first entry of the self-test named.
Entered(name) ==
    /\ test = name
    /\ invocation = 1
    /\ lcg_state = LcgSeed
    /\ lcg = LcgSeed
    /\ iter = 0
    /\ ret = <<>>
    /\ uart = <<>>
    /\ checks = <<>>
    /\ drawn = << <<>> >>

IdleTests ==
    /\ test = "none"
    /\ invocation = 0
    /\ lcg_state = LcgSeed
    /\ lcg = LcgSeed
    /\ iter = 0
    /\ ret = <<>>
    /\ uart = <<>>
    /\ checks = <<>>
    /\ drawn = <<>>

(***************************************************************************)
(* Build modes: the macro sets of main_baseline.c, main_dot8.c,            *)
(* main_lut.c, main_gemv.c, main_dot8_lut.c and main_all.c.                *)
(***************************************************************************)
BuildModes ==
    { {}, {"USE_DOT8_HW"}, {"USE_EXP_LUT_HW"}, {"USE_GEMV_HW"},
      {"USE_DOT8_HW", "USE_EXP_LUT_HW"},
      {"USE_DOT8_HW", "USE_EXP_LUT_HW", "USE_GEMV_HW"} }

(***************************************************************************)
(* DOT8 (hw_extensions/dot8/sw).                                           *)
(***************************************************************************)
LaneIdx == 0 .. 3
LaneVals == {-128, -1, 127} \cup (0 .. LaneSpan - 1)
Quads == [LaneIdx -> LaneVals]
ZeroQuad == [i \in LaneIdx |-> 0]
ZeroWord == [hi |-> 0, lo |-> 0]

\* Raw 32-bit operands of dot8_4_lanes: every byte from WordBytes.
WordBytes == {0, 127, 128, 255}
Words == { [hi |-> b3 * 256 + b2, lo |-> b1 * 256 + b0] :
             b0 \in WordBytes, b1 \in WordBytes, b2 \in WordBytes, b3 \in WordBytes }

\* A packing that forgets the uint8_t cast: a negative lane is widened with
\* its sign bits and smears into the lanes above it.
dot8_pack_nocast(q) ==
    Or32(Or32(Or32(ToU32(q[0]), Shl32(ToU32(q[1]), 8)),
              Shl32(ToU32(q[2]), 16)),
         Shl32(ToU32(q[3]), 24))

dot8_pack(q) ==
    Or32(Or32(Or32(ToU32(U8(q[0])), Shl32(ToU32(U8(q[1])), 8)),
              Shl32(ToU32(U8(q[2])), 16)),
         Shl32(ToU32(U8(q[3])), 24))

\* Lane extraction without the int8_t cast: the byte is read as unsigned.
dot8_lane_unsigned(w, i) == Shr32(w, 8 * i).lo % 256

\* Lane i of a packed word, as dot8_sw reads it: (int32_t)(int8_t)(w >> 8*i).
dot8_lane(w, i) == I8ofU32(Shr32(w, 8 * i))

dot8_unpack(w) == [i \in LaneIdx |-> dot8_lane(w, i)]

dot8_sw(ap, bp) ==
    dot8_lane(ap, 0) * dot8_lane(bp, 0) + dot8_lane(ap, 1) * dot8_lane(bp, 1)
    + dot8_lane(ap, 2) * dot8_lane(bp, 2) + dot8_lane(ap, 3) * dot8_lane(bp, 3)

\* Byte i of a word, sign-extended: the lane the DOT8 instruction multiplies.
Custom0Lane(w, i) ==
    LET byte == IF i < 2 THEN (w.lo \div Pow2(8 * i)) % 256
                         ELSE (w.hi \div Pow2(8 * (i - 2))) % 256
    IN  IF byte >= 128 THEN byte - 256 ELSE byte

\* The custom-0 DOT8 instruction (funct7 = 1): the sum over the four lanes of
\* the products of the sign-extended bytes.
custom0_dot8(ap, bp) ==
    Custom0Lane(ap, 0) * Custom0Lane(bp, 0) + Custom0Lane(ap, 1) * Custom0Lane(bp, 1)
    + Custom0Lane(ap, 2) * Custom0Lane(bp, 2) + Custom0Lane(ap, 3) * Custom0Lane(bp, 3)

dot8_4_lanes(ap, bp) ==
    IF "USE_DOT8_HW" \in flags THEN custom0_dot8(ap, bp) ELSE dot8_sw(ap, bp)

\* The scalar reference of test_dot8.
test_dot8_sw_dot(qa, qb) ==
    I8(qa[0]) * I8(qb[0]) + I8(qa[1]) * I8(qb[1])
    + I8(qa[2]) * I8(qb[2]) + I8(qa[3]) * I8(qb[3])

\* ---- one trial of test_dot8 ----
Dot8Flags == { {}, {"USE_DOT8_HW"} }

IdleDot8 ==
    /\ a = ZeroQuad
    /\ b = ZeroQuad
    /\ a_packed = ZeroWord
    /\ b_packed = ZeroWord
    /\ sw_dot = 0
    /\ hw_dot = 0
    /\ unpacked = ZeroQuad
    /\ repacked = ZeroWord
    /\ pc_dot8 = "idle"

\* tests_dot8.c 47-48
Dot8Pack ==
    /\ pc_dot8 = "pack"
    /\ a_packed' = dot8_pack(a)
    /\ b_packed' = dot8_pack(b)
    /\ pc_dot8' = "dot"
    /\ UNCHANGED <<flags, a, b, sw_dot, hw_dot, unpacked, repacked>>
    /\ UNCHANGED <<lutVars, satVars, encVars, gemvVars, testVars, mvVars>>

\* tests_dot8.c 50-54
Dot8Compute ==
    /\ pc_dot8 = "dot"
    /\ sw_dot' = test_dot8_sw_dot(a, b)
    /\ hw_dot' = dot8_4_lanes(a_packed, b_packed)
    /\ pc_dot8' = "compare"
    /\ UNCHANGED <<flags, a, b, a_packed, b_packed, unpacked, repacked>>
    /\ UNCHANGED <<lutVars, satVars, encVars, gemvVars, testVars, mvVars>>

\* ---- pack / unpack round trips ----
\* Pack the lanes a; read the lanes of the raw word b_packed.
PackStep ==
    /\ pc_dot8 = "roundtrip"
    /\ a_packed' = dot8_pack(a)
    /\ b' = dot8_unpack(b_packed)
    /\ pc_dot8' = "unpack"
    /\ UNCHANGED <<flags, a, b_packed, sw_dot, hw_dot, unpacked, repacked>>
    /\ UNCHANGED <<lutVars, satVars, encVars, gemvVars, testVars, mvVars>>

\* Read the lanes back from a_packed; pack the lanes read from b_packed.
UnpackStep ==
    /\ pc_dot8 = "unpack"
    /\ unpacked' = dot8_unpack(a_packed)
    /\ repacked' = dot8_pack(b)
    /\ pc_dot8' = "done"
    /\ UNCHANGED <<flags, a, b, a_packed, b_packed, sw_dot, hw_dot>>
    /\ UNCHANGED <<lutVars, satVars, encVars, gemvVars, testVars, mvVars>>

(***************************************************************************)
(* Exponential LUT (hw_extensions/exp_lut/sw, tinyformer.c, tests_lut.c).  *)
(* Tables are C arrays indexed from 0; a TLA+ sequence holds entry i at    *)
(* position i + 1.                                                         *)
(***************************************************************************)
\* The encoder's table with entry 1 rounded the other way.
exp_lut_drifted ==
    <<1024, 753, 556, 410, 302, 223, 165, 122, 90, 67, 50, 37, 28, 21, 16, 12>>

\* tinyformer.c: static const uint16_t exp_lut[16]
exp_lut ==
    <<1024, 754, 556, 410, 302, 223, 165, 122, 90, 67, 50, 37, 28, 21, 16, 12>>

\* exp_lut.c: static const uint16_t exp_lut_golden[16]
exp_lut_golden ==
    <<1024, 754, 556, 410, 302, 223, 165, 122, 90, 67, 50, 37, 28, 21, 16, 12>>

\* tests_lut.c: static const uint16_t golden[16]
golden ==
    <<1024, 754, 556, 410, 302, 223, 165, 122, 90, 67, 50, 37, 28, 21, 16, 12>>

\* The LUT block's ROM: the Q10 table shared by both backends.
exp_lut_rom ==
    <<1024, 754, 556, 410, 302, 223, 165, 122, 90, 67, 50, 37, 28, 21, 16, 12>>

\* The device behind INDEX/VALUE: a write of the index, then a read of the
\* value register, gives the ROM entry of that index as a 32-bit word.
exp_lut_value_read(index) == ToU32(exp_lut_rom[index.lo + 1])

\* idx > 15u on an unsigned.
IdxAbove15(i) == i.hi > 0 \/ i.lo > 15

\* exp_lut_hw with the clamp mistaken for a wrap of the index.
exp_lut_hw_wrap(i) == exp_lut_golden[(i.lo % 16) + 1]

exp_lut_hw(i) ==
    IF "USE_EXP_LUT_HW" \in flags
    THEN IF IdxAbove15(i) THEN exp_lut_golden[15 + 1]
         ELSE U16(exp_lut_value_read(i).lo)
    ELSE IF IdxAbove15(i) THEN exp_lut_golden[15 + 1]
         ELSE exp_lut_golden[i.lo + 1]

\* A clamp that forgets the upper side: a positive score stays positive.
ClampScoreLowOnly(s) == IF s < -15 THEN -15 ELSE s

\* The clamp shared by both copies of score_to_exp: x to [-15, 0].
ClampScore(s) == IF s > 0 THEN 0 ELSE IF s < -15 THEN -15 ELSE s

\* tinyformer.c score_to_exp: the index (uint16_t)(-x) into exp_lut.
score_to_exp_index(s) == U16(-ClampScore(s))

\* The values the call may return.  An index outside the 16 entries reads
\* past the array, which is undefined: any uint16_t may come back.
score_to_exp_outcomes(s) ==
    IF score_to_exp_index(s) < 16 THEN {exp_lut[score_to_exp_index(s) + 1]}
    ELSE 0 .. 65535

\* The score_to_exp of an accelerated build that never writes the device's
\* index register, so that the LUT build always reads entry 0.
score_to_exp_lut_build(s) ==
    IF "USE_EXP_LUT_HW" \in flags THEN exp_lut[1] ELSE exp_lut[score_to_exp_index(s) + 1]

\* The value returned for an index inside the table.
score_to_exp(s) == exp_lut[score_to_exp_index(s) + 1]

\* tests_lut.c score_to_exp: the index (unsigned)(-x) handed to exp_lut_hw.
tests_lut_index(s) == ToU32(-ClampScore(s))

tests_lut_score_to_exp(s) == exp_lut_hw(tests_lut_index(s))

LutFlags == { {}, {"USE_EXP_LUT_HW"} }

IdxVals ==
    { ToU32(i) : i \in 0 .. 15 + IdxOver }
    \cup { [hi |-> 0, lo |-> 65535], [hi |-> 1, lo |-> 0], [hi |-> 1, lo |-> 3],
           [hi |-> 32768, lo |-> 0], [hi |-> 65535, lo |-> 65535] }

ScoreVals == (-ScoreSpan .. ScoreSpan) \cup {-32768, -32767, 32767}

NoProbe == [value |-> 0, index |-> 0]

IdleLut ==
    /\ idx = ZeroWord
    /\ v = 0
    /\ x = 0
    /\ e_enc = NoProbe
    /\ e_test = NoProbe
    /\ pc_lut = "idle"

\* tests_lut.c 43: v = exp_lut_hw((unsigned)i)
LutLookup ==
    /\ pc_lut = "lookup"
    /\ v' = exp_lut_hw(idx)
    /\ pc_lut' = "score"
    /\ UNCHANGED <<flags, idx, x, e_enc, e_test>>
    /\ UNCHANGED <<dot8Vars, satVars, encVars, gemvVars, testVars, mvVars>>

\* tests_lut.c 58 and tinyformer.c 204: score_to_exp(x), in both copies
ScoreProbe ==
    /\ pc_lut = "score"
    /\ \E val \in score_to_exp_outcomes(x) :
          e_enc' = [value |-> val, index |-> score_to_exp_index(x)]
    /\ e_test' = [value |-> tests_lut_score_to_exp(x), index |-> tests_lut_index(x)]
    /\ pc_lut' = "done"
    /\ UNCHANGED <<flags, idx, v, x>>
    /\ UNCHANGED <<dot8Vars, satVars, encVars, gemvVars, testVars, mvVars>>

(***************************************************************************)
(* Saturating cast (tinyformer.c and demo_runner.c).                       *)
(***************************************************************************)
\* The cast with the lower clamp forgotten: (int8_t)x wraps below -128.
saturate_no_lower(s) == IF s > 127 THEN 127 ELSE I8(s)

\* tinyformer.c
saturate_int32_to_int8(s) ==
    IF s > 127 THEN 127 ELSE IF s < -128 THEN -128 ELSE I8(s)

\* demo_runner.c
demo_saturate_int32_to_int8(s) ==
    IF s > 127 THEN 127 ELSE IF s < -128 THEN -128 ELSE I8(s)

INT32_MIN == -2147483647 - 1
INT32_MAX == 2147483647

AccVals ==
    (-SatSpan .. SatSpan)
    \cup {INT32_MIN, INT32_MAX, -65536, 65536, -32768, 32767, 255, 256, 383, 384, -256, -384}

IdleSat ==
    /\ acc = 0
    /\ sat_enc = 0
    /\ sat_demo = 0
    /\ pc_sat = "idle"

\* tinyformer.c 131 / demo_runner.c 59: the cast of an accumulator
Saturate ==
    /\ pc_sat = "cast"
    /\ sat_enc' = saturate_int32_to_int8(acc)
    /\ sat_demo' = demo_saturate_int32_to_int8(acc)
    /\ pc_sat' = "done"
    /\ UNCHANGED <<flags, acc>>
    /\ UNCHANGED <<dot8Vars, lutVars, encVars, gemvVars, testVars, mvVars>>

(***************************************************************************)
(* Encoder kernel (tinyformer.c).  A matrix is a function from 0 .. rows-1 *)
(* to functions from 0 .. cols-1.                                          *)
(***************************************************************************)
Rows == 0 .. S - 1
Cols == 0 .. D - 1
Hid == 0 .. FFN - 1

\* An array as it sits in memory once written: the same function, compared
\* with itself so that TLC evaluates its cells once instead of at every read.
Stored(f) == IF f = f THEN f ELSE f

\* A shift that rounds toward zero, as a signed division by 2^k does.
SarTowardZero(n, k) == IF n < 0 THEN -((-n) \div Pow2(k)) ELSE n \div Pow2(k)

\* n >> k on a signed int32: arithmetic, rounding toward minus infinity.
Sar(n, k) == n \div Pow2(k)

\* The sum of f[0] .. f[n-1], as an accumulation loop computes it.
RECURSIVE SumTo(_, _)
SumTo(f, n) == IF n = 0 THEN 0 ELSE SumTo(f, n - 1) + f[n - 1]

\* W[k] through the flattened pointer &W[0][0], rows of length cols.
Flat(W, cols, k) == W[k \div cols][k % cols]

\* trained_weights.h number t, matrix number m: one int8 per cell.
TrainedCell(t, m, r, c) == I8(t * 53 * (7 * m + 3 * r + 5 * c + 1))

WeightMatrix(m, rows, cols) ==
    [r \in 0 .. rows - 1 |-> [c \in 0 .. cols - 1 |->
        IF trained = 0 THEN 0 ELSE TrainedCell(trained, m, r, c)]]

BiasVector(m, rows) ==
    [r \in 0 .. rows - 1 |-> IF trained = 0 THEN 0 ELSE TrainedCell(trained, m, r, 9)]

W_q == WeightMatrix(1, D, D)
W_k == WeightMatrix(2, D, D)
W_v == WeightMatrix(3, D, D)
W_o == WeightMatrix(4, D, D)
W_ff1 == WeightMatrix(5, FFN, D)
W_ff2 == WeightMatrix(6, D, FFN)
b_q == BiasVector(1, D)
b_k == BiasVector(2, D)
b_v == BiasVector(3, D)
b_o == BiasVector(4, D)
b_ff1 == BiasVector(5, FFN)
b_ff2 == BiasVector(6, D)

\* A matvec that adds onto the destination instead of overwriting it.
matvec_accumulating(in, out, W, bias, d_in, d_out) ==
    [od \in DOMAIN out |->
        IF od < d_out
        THEN saturate_int32_to_int8(
               Sar(bias[od] + out[od]
                   + SumTo([id \in 0 .. d_in - 1 |-> Flat(W, d_in, od * d_in + id) * in[id]],
                           d_in), 7))
        ELSE out[od]]

\* matvec_i8_i32_acc lines 127-130: the accumulator of row od.
matvec_row_acc(in, W, bias, d_in, od) ==
    bias[od] + SumTo([id \in 0 .. d_in - 1 |-> Flat(W, d_in, od * d_in + id) * in[id]], d_in)

\* matvec_i8_i32_acc: writes out[0 .. d_out-1]; the result is the new out.
matvec_i8_i32_acc(in, out, W, bias, d_in, d_out) ==
    [od \in DOMAIN out |->
        IF od < d_out
        THEN saturate_int32_to_int8(Sar(matvec_row_acc(in, W, bias, d_in, od), 7))
        ELSE out[od]]

linear_projection_all(src, dst, W, bias) ==
    [s \in Rows |-> matvec_i8_i32_acc(src[s], dst[s], W, bias, D, D)]

\* attention_single_head, query i: the scores column (lines 176-192).
QueryScores(q, k, i) ==
    [j \in Rows |-> Sar(SumTo([d \in Cols |-> q[i][d] * k[j][d]], D), 5)]

\* A maximum that is taken from the first key and never updated.
MaxScoreFirstKey(sc, n) == sc[0]

\* The running maximum of lines 176, 189-191 over sc[0 .. n-1].
RECURSIVE MaxScore(_, _)
MaxScore(sc, n) ==
    IF n = 0 THEN -2147483647
    ELSE LET m == MaxScore(sc, n - 1) IN IF sc[n - 1] > m THEN sc[n - 1] ELSE m

\* Lines 196-207: exp_buf for the scores sc.
QueryExp(sc) ==
    LET max_score == MaxScore(sc, S)
    IN  [j \in Rows |-> score_to_exp(I16(Sar(sc[j] - max_score, 3)))]

\* Lines 206-212: sum_exp with the zero guard.
SumExp(eb) == IF SumTo(eb, S) = 0 THEN 1 ELSE SumTo(eb, S)

\* A weight scaled by 16 bits instead of 15.
WeightQ16(eb, j) == U16((eb[j] * 65536) \div SumExp(eb))

\* Line 223: the Q15 weight of key j.
WeightQ15(eb, j) == U16((eb[j] * 32768) \div SumExp(eb))

\* Lines 220-227: the context row of one query.
QueryContext(eb, vm) ==
    LET w_q15 == Stored([j \in Rows |-> WeightQ15(eb, j)])
    IN  [d \in Cols |->
            saturate_int32_to_int8(
                SumTo([j \in Rows |-> Sar(w_q15[j] * vm[j][d], 15)], S))]

\* attention_single_head: the context matrix, and scores / exp_buf as the
\* last query iteration leaves them.
attention_single_head(q, k, vm) ==
    [context |-> [i \in Rows |->
                    LET sc == Stored(QueryScores(q, k, i))
                        eb == Stored(QueryExp(sc))
                    IN  QueryContext(eb, vm)],
     scores |-> QueryScores(q, k, S - 1),
     exp_buf |-> QueryExp(Stored(QueryScores(q, k, S - 1)))]

\* ffn_apply, first layer with ReLU (lines 245-263).
\* A first layer without the ReLU.
ffn_hidden_unit_linear(sum) == saturate_int32_to_int8(Sar(sum, 7))

\* Lines 258-263: acc >>= 7, then zero for a negative acc, else the cast.
ffn_hidden_unit(sum) ==
    LET h == Sar(sum, 7) IN IF h < 0 THEN 0 ELSE saturate_int32_to_int8(h)

FfnHidden(in) ==
    [s \in Rows |-> [d \in Hid |->
        ffn_hidden_unit(b_ff1[d] + SumTo([c \in Cols |-> W_ff1[d][c] * in[s][c]], D))]]

\* ffn_apply, second layer (lines 266-277).
FfnOut(hidden) ==
    [s \in Rows |-> [d \in Cols |->
        saturate_int32_to_int8(
            Sar(b_ff2[d] + SumTo([c \in Hid |-> W_ff2[d][c] * hidden[s][c]], FFN), 7))]]

ffn_apply(in) ==
    LET hidden == Stored(FfnHidden(in))
    IN  [hidden |-> hidden, out |-> FfnOut(hidden)]

\* A residual step that forgets the skip connection.
residual_dropped(m1, m2) == m2

\* Lines 300-305 and 311-316: the saturated sum of two matrices.
residual_add(m1, m2) ==
    [s \in Rows |-> [d \in Cols |-> saturate_int32_to_int8(m1[s][d] + m2[s][d])]]

\* demo_run lines 86-91: the sum of the output bytes read as unsigned.  The
\* sum is at most 16 * 32 * 255, so the uint32_t never wraps.
EncCksum(m) == SumTo([s \in Rows |-> SumTo([d \in Cols |-> U8(m[s][d])], D)], S)

\* Token matrices handed to the encoder.
InputOf(n) ==
    [s \in Rows |-> [d \in Cols |->
        IF n = 0 THEN 0
        ELSE IF n = 1 THEN 127
        ELSE IF n = 2 THEN -128
        ELSE I8(n * 37 + s * 101 + d * 59 + 7 * n * (s + 1) * (d + 2))]]

Inputs == { InputOf(n) : n \in 0 .. MaxInput }

ZeroMatrix(rows, cols) == [r \in 0 .. rows - 1 |-> [c \in 0 .. cols - 1 |-> 0]]
ZeroVector(rows) == [r \in 0 .. rows - 1 |-> 0]

\* Static storage at boot: all zero.
\* The cells of a working buffer, as the C code indexes them; a vector's
\* cells have column 0.
MatCells(buf, rows, cols) == { <<buf, s, d>> : s \in rows, d \in cols }
VecCells(buf) == { <<buf, j, 0>> : j \in Rows }

\* The stale reads so far, after a read of the cells reads when the cells
\* done have been written.
StaleAfter(done, reads) == stale \cup (reads \ done)

NothingUsed ==
    /\ query = 0
    /\ wrote = {}
    /\ qwrote = {}
    /\ stale = {}

BootBuffers ==
    /\ q_buf = ZeroMatrix(S, D)
    /\ k_buf = ZeroMatrix(S, D)
    /\ v_buf = ZeroMatrix(S, D)
    /\ attn_out = ZeroMatrix(S, D)
    /\ ffn_hidden = ZeroMatrix(S, FFN)
    /\ ffn_out = ZeroMatrix(S, D)
    /\ scores = ZeroVector(S)
    /\ exp_buf = ZeroVector(S)

IdleEnc ==
    /\ trained = 0
    /\ BootBuffers
    /\ input = ZeroMatrix(S, D)
    /\ encoded = ZeroMatrix(S, D)
    /\ cksum = 0
    /\ calls = 0
    /\ log = <<>>
    /\ pc_enc = "idle"
    /\ NothingUsed

\* demo_run line 81: tinyformer_encode is called on a sample.
EncodeCall ==
    /\ pc_enc = "idle"
    /\ \E inp \in Inputs : input' = inp
    /\ pc_enc' = "projections"
    /\ query' = 0
    /\ wrote' = {}
    /\ qwrote' = {}
    /\ UNCHANGED <<flags, trained, bufVars, encoded, cksum, calls, log, stale>>
    /\ UNCHANGED <<dot8Vars, lutVars, satVars, gemvVars, testVars, mvVars>>

\* tinyformer_encode lines 289-291: Q, K, V projections.
Projections ==
    /\ pc_enc = "projections"
    /\ q_buf' = linear_projection_all(input, q_buf, W_q, b_q)
    /\ k_buf' = linear_projection_all(input, k_buf, W_k, b_k)
    /\ v_buf' = linear_projection_all(input, v_buf, W_v, b_v)
    /\ wrote' = wrote \cup MatCells("q_buf", Rows, Cols) \cup MatCells("k_buf", Rows, Cols)
                    \cup MatCells("v_buf", Rows, Cols)
    /\ pc_enc' = "attention"
    /\ UNCHANGED <<flags, trained, attn_out, ffn_hidden, ffn_out, scores, exp_buf,
                   input, encoded, cksum, calls, log, query, qwrote, stale>>
    /\ UNCHANGED <<dot8Vars, lutVars, satVars, gemvVars, testVars, mvVars>>

\* tinyformer_encode line 294: attention into attn_out.
Attention ==
    /\ pc_enc = "attention"
    /\ LET att == attention_single_head(q_buf, k_buf, v_buf) IN
         /\ attn_out' = att.context
         /\ scores' = att.scores
         /\ exp_buf' = att.exp_buf
    /\ stale' = StaleAfter(wrote, MatCells("q_buf", Rows, Cols) \cup MatCells("k_buf", Rows, Cols)
                                   \cup MatCells("v_buf", Rows, Cols))
    /\ wrote' = wrote \cup MatCells("attn_out", Rows, Cols)
    /\ qwrote' = VecCells("scores") \cup VecCells("exp_buf")
    /\ query' = S
    /\ pc_enc' = "output_projection"
    /\ UNCHANGED <<flags, trained, q_buf, k_buf, v_buf, ffn_hidden, ffn_out,
                   input, encoded, cksum, calls, log>>
    /\ UNCHANGED <<dot8Vars, lutVars, satVars, gemvVars, testVars, mvVars>>

\* An attention that computes the scores for the first query only and goes
\* on with what the scores array holds.
AttnScoresFirstQuery ==
    /\ pc_enc = "attention"
    /\ scores' = IF query = 0 THEN QueryScores(q_buf, k_buf, query) ELSE scores
    /\ stale' = StaleAfter(wrote, MatCells("q_buf", {query}, Cols) \cup MatCells("k_buf", Rows, Cols))
    /\ qwrote' = IF query = 0 THEN VecCells("scores") ELSE {}
    /\ pc_enc' = "attention_exp"
    /\ UNCHANGED <<flags, trained, q_buf, k_buf, v_buf, attn_out, ffn_hidden, ffn_out, exp_buf,
                   input, encoded, cksum, calls, log, query, wrote>>
    /\ UNCHANGED <<dot8Vars, lutVars, satVars, gemvVars, testVars, mvVars>>

\* attention_single_head lines 175-192, query i: scores[j] for every key.
AttnScores ==
    /\ pc_enc = "attention"
    /\ scores' = QueryScores(q_buf, k_buf, query)
    /\ stale' = StaleAfter(wrote, MatCells("q_buf", {query}, Cols) \cup MatCells("k_buf", Rows, Cols))
    /\ qwrote' = VecCells("scores")
    /\ pc_enc' = "attention_exp"
    /\ UNCHANGED <<flags, trained, q_buf, k_buf, v_buf, attn_out, ffn_hidden, ffn_out, exp_buf,
                   input, encoded, cksum, calls, log, query, wrote>>
    /\ UNCHANGED <<dot8Vars, lutVars, satVars, gemvVars, testVars, mvVars>>

\* Lines 194-207, query i: exp_buf[j] from scores[j] and the maximum.
AttnExp ==
    /\ pc_enc = "attention_exp"
    /\ exp_buf' = QueryExp(scores)
    /\ stale' = StaleAfter(qwrote, VecCells("scores"))
    /\ qwrote' = qwrote \cup VecCells("exp_buf")
    /\ pc_enc' = "attention_context"
    /\ UNCHANGED <<flags, trained, q_buf, k_buf, v_buf, attn_out, ffn_hidden, ffn_out, scores,
                   input, encoded, cksum, calls, log, query, wrote>>
    /\ UNCHANGED <<dot8Vars, lutVars, satVars, gemvVars, testVars, mvVars>>

\* Lines 209-227, query i: context[i] from exp_buf and v; then the next query.
AttnContext ==
    /\ pc_enc = "attention_context"
    /\ attn_out' = [attn_out EXCEPT ![query] = QueryContext(exp_buf, v_buf)]
    /\ stale' = stale \cup (VecCells("exp_buf") \ qwrote)
                      \cup (MatCells("v_buf", Rows, Cols) \ wrote)
    /\ wrote' = wrote \cup MatCells("attn_out", {query}, Cols)
    /\ query' = query + 1
    /\ pc_enc' = IF query + 1 < S THEN "attention" ELSE "output_projection"
    /\ UNCHANGED <<flags, trained, q_buf, k_buf, v_buf, ffn_hidden, ffn_out, scores, exp_buf,
                   input, encoded, cksum, calls, log, qwrote>>
    /\ UNCHANGED <<dot8Vars, lutVars, satVars, gemvVars, testVars, mvVars>>

\* tinyformer_encode lines 299-305: output projection into q_buf, residual
\* into attn_out.
OutputProjection ==
    /\ pc_enc = "output_projection"
    /\ LET projected == Stored(linear_projection_all(attn_out, q_buf, W_o, b_o)) IN
         /\ q_buf' = projected
         /\ attn_out' = residual_add(input, projected)
    /\ stale' = StaleAfter(wrote, MatCells("attn_out", Rows, Cols))
    /\ wrote' = wrote \cup MatCells("q_buf", Rows, Cols) \cup MatCells("attn_out", Rows, Cols)
    /\ pc_enc' = "ffn"
    /\ UNCHANGED <<flags, trained, k_buf, v_buf, ffn_hidden, ffn_out, scores, exp_buf,
                   input, encoded, cksum, calls, log, query, qwrote>>
    /\ UNCHANGED <<dot8Vars, lutVars, satVars, gemvVars, testVars, mvVars>>

\* tinyformer_encode line 309: the feed-forward network.
FeedForward ==
    /\ pc_enc = "ffn"
    /\ LET ffn == ffn_apply(attn_out) IN
         /\ ffn_hidden' = ffn.hidden
         /\ ffn_out' = ffn.out
    /\ stale' = StaleAfter(wrote, MatCells("attn_out", Rows, Cols))
    /\ wrote' = wrote \cup MatCells("ffn_hidden", Rows, Hid) \cup MatCells("ffn_out", Rows, Cols)
    /\ pc_enc' = "final_residual"
    /\ UNCHANGED <<flags, trained, q_buf, k_buf, v_buf, attn_out, scores, exp_buf,
                   input, encoded, cksum, calls, log, query, qwrote>>
    /\ UNCHANGED <<dot8Vars, lutVars, satVars, gemvVars, testVars, mvVars>>

\* tinyformer_encode lines 311-316, then demo_run lines 85-95: the output,
\* and its checksum, which is printed.  The transcript keeps the last two
\* printed runs.
FinalResidual ==
    /\ pc_enc = "final_residual"
    /\ LET out == residual_add(attn_out, ffn_out)
           line == [build |-> flags, input |-> input, output |-> out,
                    cksum |-> EncCksum(out), first_in_boot |-> (calls = 0)]
       IN
         /\ encoded' = out
         /\ cksum' = EncCksum(out)
         /\ log' = IF Len(log) < 2 THEN Append(log, line) ELSE <<log[2], line>>
    /\ calls' = IF calls < 2 THEN calls + 1 ELSE calls
    /\ stale' = StaleAfter(wrote, MatCells("attn_out", Rows, Cols) \cup MatCells("ffn_out", Rows, Cols))
    /\ pc_enc' = "idle"
    /\ UNCHANGED <<flags, trained, bufVars, input, query, wrote, qwrote>>
    /\ UNCHANGED <<dot8Vars, lutVars, satVars, gemvVars, testVars, mvVars>>

\* The builds are tried one after the other, in the order of BuildOrder.
BuildOrder ==
    << {}, {"USE_DOT8_HW"}, {"USE_EXP_LUT_HW"}, {"USE_GEMV_HW"},
       {"USE_DOT8_HW", "USE_EXP_LUT_HW"},
       {"USE_DOT8_HW", "USE_EXP_LUT_HW", "USE_GEMV_HW"} >>

NextBuild(m) ==
    LET k == CHOOSE n \in 1 .. Len(BuildOrder) : BuildOrder[n] = m
    IN  BuildOrder[(k % Len(BuildOrder)) + 1]

\* The board is flashed with another build of the same weights and reset:
\* static storage is zeroed; the transcript of the earlier runs is kept.
Reflash ==
    /\ pc_enc = "idle"
    /\ calls > 0
    /\ flags' = NextBuild(flags)
    /\ q_buf' = ZeroMatrix(S, D)
    /\ k_buf' = ZeroMatrix(S, D)
    /\ v_buf' = ZeroMatrix(S, D)
    /\ attn_out' = ZeroMatrix(S, D)
    /\ ffn_hidden' = ZeroMatrix(S, FFN)
    /\ ffn_out' = ZeroMatrix(S, D)
    /\ scores' = ZeroVector(S)
    /\ exp_buf' = ZeroVector(S)
    /\ input' = ZeroMatrix(S, D)
    /\ encoded' = ZeroMatrix(S, D)
    /\ cksum' = 0
    /\ calls' = 0
    /\ query' = 0
    /\ wrote' = {}
    /\ qwrote' = {}
    /\ pc_enc' = "idle"
    /\ UNCHANGED <<trained, log, stale>>
    /\ UNCHANGED <<dot8Vars, lutVars, satVars, gemvVars, testVars, mvVars>>

(***************************************************************************)
(* GEMV engine: register protocol (gemv.h), driver (gemv.c) and self-test  *)
(* (tests_gemv.c).  The device itself is not part of the sources; it       *)
(* follows the stream / cursor semantics of the register protocol.         *)
(***************************************************************************)
MAX_LEN == Dim64
MAX_OUT == Dim64
XCells == 0 .. MAX_LEN - 1
WCells == 0 .. MAX_OUT * MAX_LEN - 1
YCells == 0 .. MAX_OUT - 1

GEMV_CTRL_START == Pow2(0)
GEMV_CTRL_CLEAR_DONE == Pow2(3)
GEMV_CTRL_LEN_64 == Pow2(4)
GEMV_CTRL_OUT_DIM_64 == Pow2(5)
GEMV_CTRL_ENABLE_BIAS == Pow2(6)
GEMV_STATUS_BUSY == Pow2(0)
GEMV_STATUS_DONE == Pow2(1)

\* (word & bit) != 0 for a one-bit mask.
HasBit(word, bit) == (word \div bit) % 2 = 1

\* ---- the device ----
DevReset ==
    [x_mem |-> [c \in XCells |-> 0], x_cur |-> 0,
     w_mem |-> [c \in WCells |-> 0], w_cur |-> 0,
     b_mem |-> [c \in YCells |-> 0], b_cur |-> 0,
     y_mem |-> [c \in YCells |-> 0], y_ptr |-> 0,
     len64 |-> FALSE, out64 |-> FALSE, bias |-> FALSE,
     busy |-> FALSE, done |-> FALSE]

\* A write to CTRL: the clear-done pulse drops done and rewinds the four
\* cursors; the start pulse latches the configuration bits and goes busy.
DevWriteCtrl(dv, word) ==
    LET cleared ==
            IF HasBit(word, GEMV_CTRL_CLEAR_DONE)
            THEN [dv EXCEPT !.done = FALSE, !.x_cur = 0, !.w_cur = 0,
                            !.b_cur = 0, !.y_ptr = 0]
            ELSE dv
    IN  IF HasBit(word, GEMV_CTRL_START)
        THEN [cleared EXCEPT !.busy = TRUE,
                             !.len64 = HasBit(word, GEMV_CTRL_LEN_64),
                             !.out64 = HasBit(word, GEMV_CTRL_OUT_DIM_64),
                             !.bias = HasBit(word, GEMV_CTRL_ENABLE_BIAS)]
        ELSE cleared

\* A write to X_IN / W_IN: the low byte, signed, goes to the cell under the
\* cursor, which then advances.  A write past the end of a memory is lost.
DevWriteX(dv, word) ==
    IF dv.x_cur < MAX_LEN
    THEN [dv EXCEPT !.x_mem[dv.x_cur] = I8(word), !.x_cur = @ + 1]
    ELSE dv

DevWriteW(dv, word) ==
    IF dv.w_cur < MAX_OUT * MAX_LEN
    THEN [dv EXCEPT !.w_mem[dv.w_cur] = I8(word), !.w_cur = @ + 1]
    ELSE dv

DevLen(dv) == IF dv.len64 THEN Dim64 ELSE Dim32
DevOutDim(dv) == IF dv.out64 THEN Dim64 ELSE Dim32

\* Row i of the product, on the latched shape, in a 32-bit accumulator.
DevRow(dv, i) ==
    SumTo([c \in 0 .. DevLen(dv) - 1 |-> dv.w_mem[i * DevLen(dv) + c] * dv.x_mem[c]],
          DevLen(dv))
    + (IF dv.bias THEN dv.b_mem[i] ELSE 0)

\* The end of the computation: Y is written, busy falls, done rises.
DevFinish(dv) ==
    [dv EXCEPT !.y_mem = [i \in YCells |->
                             IF i < DevOutDim(dv) THEN DevRow(dv, i) ELSE dv.y_mem[i]],
               !.busy = FALSE, !.done = TRUE]

DevReadStatus(dv) ==
    (IF dv.busy THEN GEMV_STATUS_BUSY ELSE 0) + (IF dv.done THEN GEMV_STATUS_DONE ELSE 0)

\* A read of Y_OUT does not move the cursor; a write to Y_NEXT does.
DevReadY(dv) == IF dv.y_ptr < MAX_OUT THEN ToU32(dv.y_mem[dv.y_ptr]) ELSE ToU32(0)

DevYNext(dv) == IF dv.y_ptr < MAX_OUT THEN [dv EXCEPT !.y_ptr = @ + 1] ELSE dv

\* ---- the driver ----
\* The bus trace: the routine, and its register accesses in order.  Only the
\* last MaxBus accesses of a routine are kept.
MaxBus == 2 * MAX_OUT * MAX_LEN
NoBus == [fn |-> "none", acc |-> <<>>]

Access(op, reg, val) == [op |-> op, reg |-> reg, val |-> val]

OnBus(fn, access) ==
    LET before == IF bus.fn = fn THEN bus.acc ELSE <<>>
    IN  [fn |-> fn,
         acc |-> IF Len(before) < MaxBus THEN Append(before, access)
                 ELSE Append(Tail(before), access)]

\* GEMV_WRITE_X / GEMV_WRITE_W: the word put on the bus for an int8_t.
GEMV_WRITE_X(val) == U8(val)
GEMV_WRITE_W(val) == U8(val)

\* A gemv_clear_done that writes the start bit instead.
gemv_clear_done_as_start == GEMV_CTRL_START

\* gemv_clear_done: the word written to CTRL.
gemv_clear_done == GEMV_CTRL_CLEAR_DONE

\* A gemv_start that leaves the length bit out.
gemv_start_short(len, out_dim, enable_bias) ==
    LET c1 == IF out_dim = Dim64
              THEN Or16(GEMV_CTRL_START, GEMV_CTRL_OUT_DIM_64) ELSE GEMV_CTRL_START
    IN  IF enable_bias # 0 THEN Or16(c1, GEMV_CTRL_ENABLE_BIAS) ELSE c1

\* A gemv_start that ors in enable_bias << 6.
gemv_start_bias_shifted(len, out_dim, enable_bias) ==
    LET c0 == GEMV_CTRL_START
        c1 == IF len = Dim64 THEN Or16(c0, GEMV_CTRL_LEN_64) ELSE c0
        c2 == IF out_dim = Dim64 THEN Or16(c1, GEMV_CTRL_OUT_DIM_64) ELSE c1
    IN  Or16(c2, U16(U8(enable_bias) * Pow2(6)))

\* gemv_start: the word written to CTRL.
gemv_start(len, out_dim, enable_bias) ==
    LET c0 == GEMV_CTRL_START
        c1 == IF len = Dim64 THEN Or16(c0, GEMV_CTRL_LEN_64) ELSE c0
        c2 == IF out_dim = Dim64 THEN Or16(c1, GEMV_CTRL_OUT_DIM_64) ELSE c1
    IN  IF enable_bias # 0 THEN Or16(c2, GEMV_CTRL_ENABLE_BIAS) ELSE c2

\* ---- the self-test ----
\* gemv_ref: Y = W * X, written over y[0 .. out_dim-1].
gemv_ref(wm, xm, out_dim, len, y) ==
    [i \in YCells |->
        IF i < out_dim
        THEN SumTo([c \in 0 .. len - 1 |-> wm[i * len + c] * xm[c]], len)
        ELSE y[i]]

\* The k-th int8 drawn in a run (k from 0).  Operand set 1 is the source's:
\* lcg = 1u, then lcg_next_int8 once per operand.  The other sets widen the
\* operands the comparison sees: the extremes, then mixed signs.
OperandByte(sd, k) ==
    IF sd = 1 THEN LcgDraw(LcgSeed, k + 1)
    ELSE IF sd = 0 THEN -128
    ELSE IF sd = 2 THEN (IF k % 2 = 0 THEN 127 ELSE -128)
    ELSE I8(sd * 73 + k * 41 + 13 * sd * k * k)

\* The operands of one run_one call, as drawn: x, then w.
GemvOperands(xs, ws, len, out_dim) ==
    [x |-> Stored([c \in 0 .. len - 1 |-> xs[c]]),
     w |-> Stored([c \in 0 .. out_dim * len - 1 |-> ws[c]])]

\* The transcript of drawn operand sets with one more set in the current invocation.
Drew(set) == [drawn EXCEPT ![invocation] = Append(@, set)]

\* test_gemv: the four run_one calls.
Shapes ==
    << [len |-> Dim32, out_dim |-> Dim32], [len |-> Dim64, out_dim |-> Dim32],
       [len |-> Dim32, out_dim |-> Dim64], [len |-> Dim64, out_dim |-> Dim64] >>

IdleGemv ==
    /\ gemv_dev = DevReset
    /\ ref_x = [c \in XCells |-> 0]
    /\ ref_w = [c \in WCells |-> 0]
    /\ ref_y = [c \in YCells |-> 0]
    /\ hw_y = [c \in YCells |-> 0]
    /\ run_len = Dim32
    /\ run_out_dim = Dim32
    /\ run_bias = 0
    /\ run_no = 1
    /\ seed = 0
    /\ loop_i = 0
    /\ status = 0
    /\ bus = NoBus
    /\ pc_gemv = "off"

otherVars == <<flags, dot8Vars, lutVars, satVars, encVars, mvVars>>
otherVarsAndTest == <<otherVars, testVars>>

\* run_one lines 64-71: the operands are drawn and the reference computed.
GemvRunOne ==
    /\ pc_gemv = "call"
    /\ LET len == Shapes[run_no].len
           out_dim == Shapes[run_no].out_dim
           xs == Stored([c \in XCells |-> IF c < len THEN OperandByte(seed, c) ELSE ref_x[c]])
           ws == Stored([c \in WCells |->
                           IF c < out_dim * len THEN OperandByte(seed, len + c) ELSE ref_w[c]])
       IN
         /\ run_len' = len
         /\ run_out_dim' = out_dim
         /\ run_bias' = 0
         /\ ref_x' = xs
         /\ ref_w' = ws
         /\ ref_y' = gemv_ref(ws, xs, out_dim, len, ref_y)
         /\ lcg' = LcgAfter(LcgSeed, len + out_dim * len)
         /\ drawn' = Drew(GemvOperands(xs, ws, len, out_dim))
    /\ pc_gemv' = "clear_done"
    /\ UNCHANGED <<gemv_dev, hw_y, run_no, seed, loop_i, status, bus>>
    /\ UNCHANGED <<otherVars, test, invocation, lcg_state, iter, ret, uart, checks>>

\* gemv_clear_done: one write of CLEAR_DONE to CTRL.
GemvClearDone ==
    /\ pc_gemv = "clear_done"
    /\ gemv_dev' = DevWriteCtrl(gemv_dev, gemv_clear_done)
    /\ bus' = OnBus("gemv_clear_done", Access("write", "CTRL", gemv_clear_done))
    /\ loop_i' = 0
    /\ pc_gemv' = "load_x"
    /\ UNCHANGED <<ref_x, ref_w, ref_y, hw_y, run_len, run_out_dim, run_bias, run_no, seed, status>>
    /\ UNCHANGED otherVarsAndTest

\* gemv_load_x: one turn of the loop, or its exit.
GemvLoadX ==
    /\ pc_gemv = "load_x"
    /\ IF loop_i < run_len
       THEN /\ gemv_dev' = DevWriteX(gemv_dev, GEMV_WRITE_X(ref_x[loop_i]))
            /\ bus' = OnBus("gemv_load_x", Access("write", "X_IN", GEMV_WRITE_X(ref_x[loop_i])))
            /\ loop_i' = loop_i + 1
            /\ pc_gemv' = "load_x"
       ELSE /\ loop_i' = 0
            /\ pc_gemv' = "load_w"
            /\ UNCHANGED <<gemv_dev, bus>>
    /\ UNCHANGED <<ref_x, ref_w, ref_y, hw_y, run_len, run_out_dim, run_bias, run_no, seed, status>>
    /\ UNCHANGED otherVarsAndTest

\* gemv_load_w: one turn of the loop, or its exit.
GemvLoadW ==
    /\ pc_gemv = "load_w"
    /\ IF loop_i < run_out_dim * run_len
       THEN /\ gemv_dev' = DevWriteW(gemv_dev, GEMV_WRITE_W(ref_w[loop_i]))
            /\ bus' = OnBus("gemv_load_w", Access("write", "W_IN", GEMV_WRITE_W(ref_w[loop_i])))
            /\ loop_i' = loop_i + 1
            /\ pc_gemv' = "load_w"
       ELSE /\ loop_i' = 0
            /\ pc_gemv' = "start"
            /\ UNCHANGED <<gemv_dev, bus>>
    /\ UNCHANGED <<ref_x, ref_w, ref_y, hw_y, run_len, run_out_dim, run_bias, run_no, seed, status>>
    /\ UNCHANGED otherVarsAndTest

\* gemv_start(len, out_dim, enable_bias): one write to CTRL.  run_one
\* passes enable_bias = 0.
GemvStart ==
    /\ pc_gemv = "start"
    /\ gemv_dev' = DevWriteCtrl(gemv_dev, gemv_start(run_len, run_out_dim, run_bias))
    /\ bus' = OnBus("gemv_start", Access("write", "CTRL", gemv_start(run_len, run_out_dim, run_bias)))
    /\ pc_gemv' = "wait_done"
    /\ UNCHANGED <<ref_x, ref_w, ref_y, hw_y, run_len, run_out_dim, run_bias, run_no, seed,
                   loop_i, status>>
    /\ UNCHANGED otherVarsAndTest

\* The device finishes on its own time.
DevCompute ==
    /\ gemv_dev.busy
    /\ gemv_dev' = DevFinish(gemv_dev)
    /\ UNCHANGED <<ref_x, ref_w, ref_y, hw_y, run_len, run_out_dim, run_bias, run_no, seed,
                   loop_i, status, bus, pc_gemv>>
    /\ UNCHANGED otherVarsAndTest

\* A gemv_wait_done that tests s | GEMV_STATUS_DONE.
gemv_wait_done_break_or(word) == HasBit(Or16(word, GEMV_STATUS_DONE), GEMV_STATUS_DONE)

\* gemv_wait_done line 92: the test that ends the loop.
gemv_wait_done_break(word) == HasBit(word, GEMV_STATUS_DONE)

\* gemv_wait_done: one read of STATUS; the loop ends on the done bit.
GemvWaitDone ==
    /\ pc_gemv = "wait_done"
    /\ status' = DevReadStatus(gemv_dev)
    /\ bus' = OnBus("gemv_wait_done", Access("read", "STATUS", DevReadStatus(gemv_dev)))
    /\ pc_gemv' = IF gemv_wait_done_break(DevReadStatus(gemv_dev))
                  THEN "read_y" ELSE "wait_done"
    /\ UNCHANGED <<gemv_dev, ref_x, ref_w, ref_y, hw_y, run_len, run_out_dim, run_bias, run_no,
                   seed, loop_i>>
    /\ UNCHANGED otherVarsAndTest

\* gemv_read_y: the read of Y_OUT into y[i], or the exit of the loop.
GemvReadY ==
    /\ pc_gemv = "read_y"
    /\ IF loop_i < run_out_dim
       THEN /\ hw_y' = [hw_y EXCEPT ![loop_i] = ToI32(DevReadY(gemv_dev))]
            /\ bus' = OnBus("gemv_read_y", Access("read", "Y_OUT", DevReadY(gemv_dev)))
            /\ pc_gemv' = "y_next"
            /\ UNCHANGED loop_i
       ELSE /\ loop_i' = 0
            /\ pc_gemv' = "compare"
            /\ UNCHANGED <<hw_y, bus>>
    /\ UNCHANGED <<gemv_dev, ref_x, ref_w, ref_y, run_len, run_out_dim, run_bias, run_no, seed,
                   status>>
    /\ UNCHANGED otherVarsAndTest

\* A gemv_read_y whose loop goes on without the write to Y_NEXT.
GemvYNextSkipped ==
    /\ pc_gemv = "y_next"
    /\ loop_i' = loop_i + 1
    /\ pc_gemv' = "read_y"
    /\ UNCHANGED <<gemv_dev, ref_x, ref_w, ref_y, hw_y, run_len, run_out_dim, run_bias, run_no,
                   seed, status, bus>>
    /\ UNCHANGED otherVarsAndTest

\* gemv_read_y: the write to Y_NEXT that follows each read.
GemvYNext ==
    /\ pc_gemv = "y_next"
    /\ gemv_dev' = DevYNext(gemv_dev)
    /\ bus' = OnBus("gemv_read_y", Access("write", "Y_NEXT", 1))
    /\ loop_i' = loop_i + 1
    /\ pc_gemv' = "read_y"
    /\ UNCHANGED <<ref_x, ref_w, ref_y, hw_y, run_len, run_out_dim, run_bias, run_no, seed, status>>
    /\ UNCHANGED otherVarsAndTest

\* run_one lines 80-96 and test_gemv: the comparison, then the next shape.
GemvCompare ==
    /\ pc_gemv = "compare"
    /\ LET Bad == { i \in 0 .. run_out_dim - 1 : hw_y[i] # ref_y[i] }
           first == CHOOSE i \in Bad : \A k \in Bad : i <= k
       IN  IF Bad # {}
           THEN /\ checks' = checks \o [k \in 1 .. first + 1 |-> k <= first]
                /\ uart' = Append(uart, "FAIL len= out_dim= i= ref= hw=")
                /\ ret' = <<-1>>
                /\ pc_gemv' = "fail"
                /\ UNCHANGED run_no
           ELSE /\ checks' = checks \o [k \in 1 .. run_out_dim |-> TRUE]
                /\ IF run_no < Len(Shapes)
                   THEN /\ pc_gemv' = "call"
                        /\ run_no' = run_no + 1
                        /\ UNCHANGED <<uart, ret>>
                   ELSE /\ uart' = Append(uart, "GEMV self-test PASS")
                        /\ ret' = <<0>>
                        /\ pc_gemv' = "pass"
                        /\ UNCHANGED run_no
    /\ UNCHANGED <<gemv_dev, ref_x, ref_w, ref_y, hw_y, run_len, run_out_dim, run_bias, seed,
                   loop_i, status, bus>>
    /\ UNCHANGED <<otherVars, test, invocation, lcg_state, lcg, iter, drawn>>

\* ---- the self-tests as entry points: trial loops, verdicts, re-entry ----
\* A comparison value read from a device that has failed: off by one.
DevFault(val) == val + 1

\* The device finishes with a wrong word in row 0.
DevComputeFaulty ==
    /\ gemv_dev.busy
    /\ gemv_dev' = [DevFinish(gemv_dev) EXCEPT !.y_mem[0] = DevFault(@)]
    /\ UNCHANGED <<ref_x, ref_w, ref_y, hw_y, run_len, run_out_dim, run_bias, run_no, seed,
                   loop_i, status, bus, pc_gemv>>
    /\ UNCHANGED otherVarsAndTest

\* A call of the entry point: a fresh verdict, the statics as they are.
Enter ==
    /\ invocation' = invocation + 1
    /\ iter' = 0
    /\ ret' = <<>>
    /\ uart' = <<>>
    /\ checks' = <<>>
    /\ drawn' = Append(drawn, <<>>)
    /\ UNCHANGED <<test, lcg_state, lcg>>

\* tests_dot8.c 39-46: the operands of one iteration, a[i] then b[i].
Dot8Draw ==
    /\ pc_dot8 = "draw"
    /\ LET qa == Stored([i \in LaneIdx |-> LcgDraw(lcg_state, 2 * i + 1)])
           qb == Stored([i \in LaneIdx |-> LcgDraw(lcg_state, 2 * i + 2)])
       IN  /\ a' = qa
           /\ b' = qb
           /\ drawn' = Drew([a |-> qa, b |-> qb])
    /\ lcg_state' = LcgAfter(lcg_state, 8)
    /\ pc_dot8' = "pack"
    /\ UNCHANGED <<flags, a_packed, b_packed, sw_dot, hw_dot, unpacked, repacked>>
    /\ UNCHANGED <<lutVars, satVars, encVars, gemvVars, mvVars>>
    /\ UNCHANGED <<test, invocation, lcg, iter, ret, uart, checks>>

\* The DOT8 instruction of a failed core returns a wrong sum.
Dot8ComputeFaulty ==
    /\ pc_dot8 = "dot"
    /\ "USE_DOT8_HW" \in flags
    /\ sw_dot' = test_dot8_sw_dot(a, b)
    /\ hw_dot' = DevFault(dot8_4_lanes(a_packed, b_packed))
    /\ pc_dot8' = "compare"
    /\ UNCHANGED <<flags, a, b, a_packed, b_packed, unpacked, repacked>>
    /\ UNCHANGED <<lutVars, satVars, encVars, gemvVars, testVars, mvVars>>

\* A test_dot8 that prints the failure and goes on with the next iteration.
Dot8CheckGoesOn ==
    /\ pc_dot8 = "compare"
    /\ checks' = Append(checks, hw_dot = sw_dot)
    /\ IF iter + 1 < NITER
       THEN /\ iter' = iter + 1
            /\ uart' = IF hw_dot # sw_dot THEN Append(uart, "DOT8 FAIL iter= sw= hw=") ELSE uart
            /\ pc_dot8' = "draw"
            /\ UNCHANGED ret
       ELSE /\ uart' = Append(uart, "DOT8 PASS")
            /\ ret' = <<0>>
            /\ pc_dot8' = "returned"
            /\ UNCHANGED iter
    /\ UNCHANGED <<flags, a, b, a_packed, b_packed, sw_dot, hw_dot, unpacked, repacked>>
    /\ UNCHANGED <<lutVars, satVars, encVars, gemvVars, mvVars>>
    /\ UNCHANGED <<test, invocation, lcg_state, lcg, drawn>>

\* tests_dot8.c 55-68: the comparison, then the next iteration or the verdict.
Dot8Check ==
    /\ pc_dot8 = "compare"
    /\ checks' = Append(checks, hw_dot = sw_dot)
    /\ IF hw_dot # sw_dot
       THEN /\ uart' = Append(uart, "DOT8 FAIL iter= sw= hw=")
            /\ ret' = <<-1>>
            /\ pc_dot8' = "returned"
            /\ UNCHANGED iter
       ELSE IF iter + 1 < NITER
            THEN /\ iter' = iter + 1
                 /\ pc_dot8' = "draw"
                 /\ UNCHANGED <<uart, ret>>
            ELSE /\ uart' = Append(uart, "DOT8 PASS")
                 /\ ret' = <<0>>
                 /\ pc_dot8' = "returned"
                 /\ UNCHANGED iter
    /\ UNCHANGED <<flags, a, b, a_packed, b_packed, sw_dot, hw_dot, unpacked, repacked>>
    /\ UNCHANGED <<lutVars, satVars, encVars, gemvVars, mvVars>>
    /\ UNCHANGED <<test, invocation, lcg_state, lcg, drawn>>

\* test_dot8 is called again in the same process.
Dot8Again ==
    /\ pc_dot8 = "returned"
    /\ invocation < MaxInvocations
    /\ Enter
    /\ pc_dot8' = "draw"
    /\ UNCHANGED <<flags, a, b, a_packed, b_packed, sw_dot, hw_dot, unpacked, repacked>>
    /\ UNCHANGED <<lutVars, satVars, encVars, gemvVars, mvVars>>

\* What a read of the LUT block may give: the value, or a wrong one when the
\* block is in the build and has failed.
LutReadOutcomes(val) ==
    IF "USE_EXP_LUT_HW" \in flags THEN {val, DevFault(val)} ELSE {val}

\* tests_lut.c 42-55: one turn of the loop over the table indices.
LutTableTrial ==
    /\ pc_lut = "table"
    /\ \E val \in LutReadOutcomes(exp_lut_hw(ToU32(iter))) :
          /\ v' = val
          /\ checks' = Append(checks, val = golden[iter + 1])
          /\ IF val # golden[iter + 1]
             THEN /\ uart' = Append(uart, "LUT FAIL idx= got= exp=")
                  /\ ret' = <<-1>>
                  /\ pc_lut' = "returned"
                  /\ UNCHANGED iter
             ELSE /\ iter' = IF iter < 15 THEN iter + 1 ELSE 0
                  /\ pc_lut' = IF iter < 15 THEN "table" ELSE "scores"
                  /\ UNCHANGED <<uart, ret>>
    /\ UNCHANGED <<flags, idx, x, e_enc, e_test>>
    /\ UNCHANGED <<dot8Vars, satVars, encVars, gemvVars, mvVars>>
    /\ UNCHANGED <<test, invocation, lcg_state, lcg, drawn>>

\* tests_lut.c 57-70: one turn of the loop over the scores 0 down to -15.
LutScoreTrial ==
    /\ pc_lut = "scores"
    /\ \E val \in LutReadOutcomes(tests_lut_score_to_exp(iter)) :
          /\ v' = val
          /\ checks' = Append(checks, val = golden[(-iter) + 1])
          /\ IF val # golden[(-iter) + 1]
             THEN /\ uart' = Append(uart, "LUT FAIL score_to_exp x= got=")
                  /\ ret' = <<-1>>
                  /\ pc_lut' = "returned"
                  /\ UNCHANGED iter
             ELSE IF iter > -15
                  THEN /\ iter' = iter - 1
                       /\ pc_lut' = "scores"
                       /\ UNCHANGED <<uart, ret>>
                  ELSE /\ uart' = Append(uart, "LUT PASS")
                       /\ ret' = <<0>>
                       /\ pc_lut' = "returned"
                       /\ UNCHANGED iter
    /\ UNCHANGED <<flags, idx, x, e_enc, e_test>>
    /\ UNCHANGED <<dot8Vars, satVars, encVars, gemvVars, mvVars>>
    /\ UNCHANGED <<test, invocation, lcg_state, lcg, drawn>>

\* test_lut is called again in the same process.
LutAgain ==
    /\ pc_lut = "returned"
    /\ invocation < MaxInvocations
    /\ Enter
    /\ pc_lut' = "table"
    /\ UNCHANGED <<flags, idx, v, x, e_enc, e_test>>
    /\ UNCHANGED <<dot8Vars, satVars, encVars, gemvVars, mvVars>>

(***************************************************************************)
(* One output row of the two kernels that scale by >> 7: a row of          *)
(* matvec_i8_i32_acc and a hidden unit of ffn_apply, on the same operands. *)
(***************************************************************************)
\* int8 operands: the extremes and the values around zero.
RowVals == {-128, -1, 0, 1, 127}

IdleMv ==
    /\ mv_in = [id \in Cols |-> 0]
    /\ mv_W = [od \in {0} |-> [id \in Cols |-> 0]]
    /\ mv_b = [od \in {0} |-> 0]
    /\ mv_out = [od \in {0} |-> 0]
    /\ mv_hidden = 0
    /\ pc_mv = "idle"

\* matvec_i8_i32_acc(in, out, W, b, D, 1)
MatvecRow ==
    /\ pc_mv = "matvec"
    /\ mv_out' = matvec_i8_i32_acc(mv_in, mv_out, mv_W, mv_b, D, 1)
    /\ pc_mv' = "ffn"
    /\ UNCHANGED <<flags, mv_in, mv_W, mv_b, mv_hidden>>
    /\ UNCHANGED <<dot8Vars, lutVars, satVars, encVars, gemvVars, testVars>>

\* ffn_apply lines 250-263 for one unit whose weights are mv_W[0], bias mv_b[0]
FfnUnit ==
    /\ pc_mv = "ffn"
    /\ mv_hidden' = ffn_hidden_unit(mv_b[0] + SumTo([c \in Cols |-> mv_W[0][c] * mv_in[c]], D))
    /\ pc_mv' = "done"
    /\ UNCHANGED <<flags, mv_in, mv_W, mv_b, mv_out>>
    /\ UNCHANGED <<dot8Vars, lutVars, satVars, encVars, gemvVars, testVars>>

(***************************************************************************)
(* Specifications.                                                         *)
(***************************************************************************)
InitDot8 ==
    /\ flags \in Dot8Flags
    /\ a \in Quads
    /\ b \in Quads
    /\ a_packed = ZeroWord
    /\ b_packed = ZeroWord
    /\ sw_dot = 0
    /\ hw_dot = 0
    /\ unpacked = ZeroQuad
    /\ repacked = ZeroWord
    /\ pc_dot8 = "pack"
    /\ IdleLut
    /\ IdleSat
    /\ IdleEnc
    /\ IdleGemv
    /\ IdleTests
    /\ IdleMv

NextDot8 == Dot8Pack \/ Dot8Compute

SpecDot8 == InitDot8 /\ [][NextDot8]_vars

InitPack ==
    /\ flags = {}
    /\ a \in Quads
    /\ b = ZeroQuad
    /\ a_packed = ZeroWord
    /\ b_packed \in Words
    /\ sw_dot = 0
    /\ hw_dot = 0
    /\ unpacked = ZeroQuad
    /\ repacked = ZeroWord
    /\ pc_dot8 = "roundtrip"
    /\ IdleLut
    /\ IdleSat
    /\ IdleEnc
    /\ IdleGemv
    /\ IdleTests
    /\ IdleMv

NextPack == PackStep \/ UnpackStep

SpecPack == InitPack /\ [][NextPack]_vars

InitLut ==
    /\ flags \in LutFlags
    /\ idx \in IdxVals
    /\ x \in ScoreVals
    /\ v = 0
    /\ e_enc = NoProbe
    /\ e_test = NoProbe
    /\ pc_lut = "lookup"
    /\ IdleDot8
    /\ IdleSat
    /\ IdleEnc
    /\ IdleGemv
    /\ IdleTests
    /\ IdleMv

NextLut == LutLookup \/ ScoreProbe

SpecLut == InitLut /\ [][NextLut]_vars

InitSat ==
    /\ flags = {}
    /\ acc \in AccVals
    /\ sat_enc = 0
    /\ sat_demo = 0
    /\ pc_sat = "cast"
    /\ IdleDot8
    /\ IdleLut
    /\ IdleEnc
    /\ IdleGemv
    /\ IdleTests
    /\ IdleMv

NextSat == Saturate

SpecSat == InitSat /\ [][NextSat]_vars

InitEnc ==
    /\ flags \in BuildModes
    /\ trained \in 0 .. MaxTrained
    /\ BootBuffers
    /\ input = ZeroMatrix(S, D)
    /\ encoded = ZeroMatrix(S, D)
    /\ cksum = 0
    /\ calls = 0
    /\ log = <<>>
    /\ pc_enc = "idle"
    /\ NothingUsed
    /\ IdleDot8
    /\ IdleLut
    /\ IdleSat
    /\ IdleGemv
    /\ IdleTests
    /\ IdleMv

NextEnc ==
    \/ EncodeCall \/ Projections \/ Attention \/ OutputProjection
    \/ FeedForward \/ FinalResidual \/ Reflash

Spec == InitEnc /\ [][NextEnc]_vars

\* test_gemv is entered again in the same process, the device and the
\* static arrays being as the previous invocation left them.
GemvAgain ==
    /\ pc_gemv \in {"pass", "fail"}
    /\ invocation < MaxInvocations
    /\ Enter
    /\ run_no' = 1
    /\ pc_gemv' = "call"
    /\ UNCHANGED <<gemv_dev, ref_x, ref_w, ref_y, hw_y, run_len, run_out_dim, run_bias, seed,
                   loop_i, status, bus>>
    /\ UNCHANGED otherVars

InitGemv ==
    /\ flags \in { m \in BuildModes : "USE_GEMV_HW" \in m }
    /\ IdleDot8
    /\ IdleLut
    /\ IdleSat
    /\ IdleEnc
    /\ gemv_dev = DevReset
    /\ ref_x = [c \in XCells |-> 0]
    /\ ref_w = [c \in WCells |-> 0]
    /\ ref_y = [c \in YCells |-> 0]
    /\ hw_y = [c \in YCells |-> 0]
    /\ run_len = Dim32
    /\ run_out_dim = Dim32
    /\ run_bias = 0
    /\ run_no = 1
    /\ seed \in 0 .. MaxSeed
    /\ loop_i = 0
    /\ status = 0
    /\ bus = NoBus
    /\ pc_gemv = "call"
    /\ Entered("test_gemv")
    /\ IdleMv

NextGemv ==
    \/ GemvRunOne \/ GemvClearDone \/ GemvLoadX \/ GemvLoadW \/ GemvStart
    \/ DevCompute \/ GemvWaitDone \/ GemvReadY \/ GemvYNext \/ GemvCompare
    \/ GemvAgain

SpecGemv == InitGemv /\ [][NextGemv]_vars

\* The two CTRL routines of the driver called on their own, with any
\* arguments, on a device out of reset.
LenArgs == {0, Dim32, Dim64, Dim64 + 1}
BiasArgs == -1 .. MaxBiasArg

InitCtrl ==
    /\ flags \in { m \in BuildModes : "USE_GEMV_HW" \in m }
    /\ IdleDot8
    /\ IdleLut
    /\ IdleSat
    /\ IdleEnc
    /\ gemv_dev = DevReset
    /\ ref_x = [c \in XCells |-> 0]
    /\ ref_w = [c \in WCells |-> 0]
    /\ ref_y = [c \in YCells |-> 0]
    /\ hw_y = [c \in YCells |-> 0]
    /\ run_len \in LenArgs
    /\ run_out_dim \in LenArgs
    /\ run_bias \in BiasArgs
    /\ run_no = 1
    /\ seed = 0
    /\ loop_i = 0
    /\ status = 0
    /\ bus = NoBus
    /\ pc_gemv \in {"clear_done", "start"}
    /\ IdleTests
    /\ IdleMv

NextCtrl == GemvClearDone \/ GemvStart

SpecCtrl == InitCtrl /\ [][NextCtrl]_vars

\* The processor keeps executing the driver, and a started device finishes.
SpecGemvFair ==
    /\ InitGemv /\ [][NextGemv]_vars
    /\ WF_vars(GemvWaitDone)
    /\ WF_vars(DevCompute)

\* tinyformer_encode called again and again in one boot, the attention
\* stage taken one query at a time.
NextBuf ==
    \/ EncodeCall \/ Projections \/ AttnScores \/ AttnExp \/ AttnContext
    \/ OutputProjection \/ FeedForward \/ FinalResidual

SpecBuf == InitEnc /\ [][NextBuf]_vars

\* attention_single_head on its own: q and k are any int8 rows (here each
\* row holds one value in all its columns), v is zero.
RowMatrix(rv) == [s \in Rows |-> [d \in Cols |-> rv[s]]]

InitAttn ==
    /\ flags \in BuildModes
    /\ trained = 0
    /\ q_buf \in { RowMatrix(rv) : rv \in [Rows -> RowVals] }
    /\ k_buf \in { RowMatrix(rv) : rv \in [Rows -> RowVals] }
    /\ v_buf = ZeroMatrix(S, D)
    /\ attn_out = ZeroMatrix(S, D)
    /\ ffn_hidden = ZeroMatrix(S, FFN)
    /\ ffn_out = ZeroMatrix(S, D)
    /\ scores = ZeroVector(S)
    /\ exp_buf = ZeroVector(S)
    /\ input = ZeroMatrix(S, D)
    /\ encoded = ZeroMatrix(S, D)
    /\ cksum = 0
    /\ calls = 1
    /\ log = <<>>
    /\ pc_enc = "attention"
    /\ query = 0
    /\ wrote = MatCells("q_buf", Rows, Cols) \cup MatCells("k_buf", Rows, Cols)
               \cup MatCells("v_buf", Rows, Cols)
    /\ qwrote = {}
    /\ stale = {}
    /\ IdleDot8
    /\ IdleLut
    /\ IdleSat
    /\ IdleGemv
    /\ IdleTests
    /\ IdleMv

NextAttn == Attention

SpecAttn == InitAttn /\ [][NextAttn]_vars

InitRow ==
    /\ flags = {}
    /\ mv_in \in [Cols -> RowVals]
    /\ mv_W \in [{0} -> [Cols -> RowVals]]
    /\ mv_b \in [{0} -> RowVals]
    /\ mv_out = [od \in {0} |-> 0]
    /\ mv_hidden = 0
    /\ pc_mv = "matvec"
    /\ IdleDot8
    /\ IdleLut
    /\ IdleSat
    /\ IdleEnc
    /\ IdleGemv
    /\ IdleTests

NextRow == MatvecRow \/ FfnUnit

SpecRow == InitRow /\ [][NextRow]_vars

\* The self-tests as a program calls them: one of the three entry points,
\* in any build that has it, called up to MaxInvocations times; a device
\* in the build may fail at any trial.
InitTests ==
    /\ test \in {"test_dot8", "test_gemv", "test_lut"}
    /\ flags \in { m \in BuildModes : test = "test_gemv" => "USE_GEMV_HW" \in m }
    /\ invocation = 1
    /\ lcg_state = LcgSeed
    /\ lcg = LcgSeed
    /\ iter = 0
    /\ ret = <<>>
    /\ uart = <<>>
    /\ checks = <<>>
    /\ drawn = << <<>> >>
    /\ a = ZeroQuad
    /\ b = ZeroQuad
    /\ a_packed = ZeroWord
    /\ b_packed = ZeroWord
    /\ sw_dot = 0
    /\ hw_dot = 0
    /\ unpacked = ZeroQuad
    /\ repacked = ZeroWord
    /\ pc_dot8 = IF test = "test_dot8" THEN "draw" ELSE "idle"
    /\ idx = ZeroWord
    /\ v = 0
    /\ x = 0
    /\ e_enc = NoProbe
    /\ e_test = NoProbe
    /\ pc_lut = IF test = "test_lut" THEN "table" ELSE "idle"
    /\ IdleSat
    /\ IdleEnc
    /\ gemv_dev = DevReset
    /\ ref_x = [c \in XCells |-> 0]
    /\ ref_w = [c \in WCells |-> 0]
    /\ ref_y = [c \in YCells |-> 0]
    /\ hw_y = [c \in YCells |-> 0]
    /\ run_len = Dim32
    /\ run_out_dim = Dim32
    /\ run_bias = 0
    /\ run_no = 1
    /\ seed = 1
    /\ loop_i = 0
    /\ status = 0
    /\ bus = NoBus
    /\ pc_gemv = IF test = "test_gemv" THEN "call" ELSE "idle"
    /\ IdleMv

NextTests ==
    \/ Dot8Draw \/ Dot8Pack \/ Dot8Compute \/ Dot8ComputeFaulty \/ Dot8Check \/ Dot8Again
    \/ LutTableTrial \/ LutScoreTrial \/ LutAgain
    \/ GemvRunOne \/ GemvClearDone \/ GemvLoadX \/ GemvLoadW \/ GemvStart
    \/ DevCompute \/ DevComputeFaulty \/ GemvWaitDone \/ GemvReadY \/ GemvYNext
    \/ GemvCompare \/ GemvAgain

SpecTests == InitTests /\ [][NextTests]_vars

(***************************************************************************)
(* C1: for every pair of lane quadruples a, b, dot8_4_lanes(dot8_pack(a),  *)
(* dot8_pack(b)) is the exact integer sum of the four lane products, with  *)
(* no saturation or wrap-around; the result lies in [-65024, 65536].       *)
(***************************************************************************)
C1_Dot8Exact ==
    pc_dot8 = "compare" =>
        /\ hw_dot = a[0] * b[0] + a[1] * b[1] + a[2] * b[2] + a[3] * b[3]
        /\ hw_dot = sw_dot
        /\ hw_dot >= -65024
        /\ hw_dot <= 65536

\* The extreme case: all lanes -128 on both sides gives 65536.
C1_Witness ==
    /\ pc_dot8 = "compare"
    /\ \A i \in LaneIdx : a[i] = -128 /\ b[i] = -128
    /\ hw_dot = 65536
    /\ flags = {}

(***************************************************************************)
(* C7: packing and unpacking are mutually inverse and order-preserving:    *)
(* the four sign-extended bytes of dot8_pack(lanes), byte 0 least          *)
(* significant, are the lanes in order, and packing the four lanes read    *)
(* from any 32-bit word w gives back w.                                    *)
(***************************************************************************)
C7_PackUnpackRoundTrip ==
    pc_dot8 = "done" =>
        /\ unpacked = a
        /\ repacked = b_packed

C7_Witness ==
    /\ pc_dot8 = "done"
    /\ a = [i \in LaneIdx |-> IF i = 0 THEN -128 ELSE IF i = 1 THEN -1
                               ELSE IF i = 2 THEN 127 ELSE 0]
    /\ unpacked = a
    /\ b_packed = [hi |-> 255 * 256 + 128, lo |-> 127 * 256 + 0]
    /\ b = [i \in LaneIdx |-> IF i = 0 THEN 0 ELSE IF i = 1 THEN 127
                               ELSE IF i = 2 THEN -128 ELSE -1]
    /\ repacked = b_packed

(***************************************************************************)
(* C3: exp_lut_hw(i) returns golden[i] = 1024, 754, 556, 410, 302, 223,    *)
(* 165, 122, 90, 67, 50, 37, 28, 21, 16, 12 for every index i in 0..15,    *)
(* and golden[15] = 12 for every unsigned index above 15, with no error.   *)
(***************************************************************************)
C3_Table ==
    <<1024, 754, 556, 410, 302, 223, 165, 122, 90, 67, 50, 37, 28, 21, 16, 12>>

C3_ExpLutGolden ==
    pc_lut \in {"score", "done"} =>
        /\ (idx.hi = 0 /\ idx.lo <= 15) => (v = C3_Table[idx.lo + 1] /\ v = golden[idx.lo + 1])
        /\ (idx.hi > 0 \/ idx.lo > 15) => v = 12

\* An index far above 15 (0xFFFFFFFF) clamps to 12 in the software build.
C3_Witness ==
    /\ pc_lut = "done"
    /\ idx = [hi |-> 65535, lo |-> 65535]
    /\ v = 12
    /\ flags = {}

(***************************************************************************)
(* C8: for every int16 x, score_to_exp(x) is golden[-x] when -15 <= x <= 0,*)
(* golden[0] = 1024 when x > 0 and golden[15] = 12 when x < -15 (x =       *)
(* -32768 included); the index passed to the table is always in 0..15.     *)
(* Both copies (tinyformer.c, tests_lut.c) are covered.                    *)
(***************************************************************************)
C8_ScoreToExp ==
    pc_lut = "done" =>
        /\ e_enc.index \in 0 .. 15
        /\ e_test.index.hi = 0 /\ e_test.index.lo \in 0 .. 15
        /\ (x >= -15 /\ x <= 0) =>
               (e_enc.value = golden[-x + 1] /\ e_test.value = golden[-x + 1])
        /\ x > 0 => (e_enc.value = 1024 /\ e_test.value = 1024)
        /\ x < -15 => (e_enc.value = 12 /\ e_test.value = 12)

C8_Witness ==
    /\ pc_lut = "done"
    /\ x = -32768
    /\ e_enc = [value |-> 12, index |-> 15]
    /\ e_test.value = 12

(***************************************************************************)
(* C9: the three copies of the 16-entry table (the encoder's exp_lut, the  *)
(* driver's exp_lut_golden, the self-test's golden) are entry-for-entry    *)
(* identical, so the encoder's score_to_exp(x) and the self-test's         *)
(* score_to_exp(x) built on the software exp_lut_hw agree for every x.     *)
(***************************************************************************)
C9_TablesAgree ==
    (pc_lut = "done" /\ "USE_EXP_LUT_HW" \notin flags) =>
        /\ e_enc.value = e_test.value
        /\ e_enc.index = e_test.index.lo
        /\ \A i \in 1 .. 16 :
              exp_lut[i] = exp_lut_golden[i] /\ exp_lut_golden[i] = golden[i]
        /\ Len(exp_lut) = 16 /\ Len(exp_lut_golden) = 16 /\ Len(golden) = 16

C9_Witness ==
    /\ pc_lut = "done"
    /\ flags = {}
    /\ x = -1
    /\ e_enc.value = 754
    /\ e_test.value = 754

(***************************************************************************)
(* C10: saturate_int32_to_int8(x) = min(127, max(-128, x)) for every       *)
(* 32-bit x: 128 gives 127, -129 gives -128, every x in [-128, 127] is     *)
(* returned unchanged; the encoder's and the demo runner's copy agree.     *)
(***************************************************************************)
C10_Min(m, n) == IF m < n THEN m ELSE n
C10_Max(m, n) == IF m > n THEN m ELSE n

C10_Saturate ==
    pc_sat = "done" =>
        /\ sat_enc = C10_Min(127, C10_Max(-128, acc))
        /\ sat_demo = sat_enc
        /\ acc = 128 => sat_enc = 127
        /\ acc = -129 => sat_enc = -128
        /\ (acc >= -128 /\ acc <= 127) => sat_enc = acc

C10_Witness ==
    /\ pc_sat = "done"
    /\ acc = -129
    /\ sat_enc = -128
    /\ sat_demo = -128

(***************************************************************************)
(* C2.  For each of the four shapes and every operand set, once the driver *)
(* sequence gemv_clear_done, gemv_load_x, gemv_load_w, gemv_start(len,     *)
(* out_dim, 0), gemv_wait_done, gemv_read_y has run against the device,    *)
(* Y[i] is the sum over k of W[i*len+k] * X[k] for every i below out_dim,  *)
(* and the self-test never reports a mismatch.                             *)
(***************************************************************************)
C2_GemvMatchesReference ==
    /\ pc_gemv = "compare" =>
          \A i \in 0 .. run_out_dim - 1 :
              hw_y[i] = SumTo([c \in 0 .. run_len - 1 |->
                                  ref_w[i * run_len + c] * ref_x[c]], run_len)
    /\ pc_gemv # "fail"

\* The last shape (both sizes large) has been read back, on mixed-sign
\* operands, after three earlier runs left their cursors and done bit
\* behind; the products are not all equal and one of them is negative.
C2_Witness ==
    /\ pc_gemv = "compare"
    /\ run_no = Len(Shapes)
    /\ run_len = Dim64
    /\ run_out_dim = Dim64
    /\ seed = MaxSeed
    /\ hw_y = ref_y
    /\ gemv_dev.y_ptr = Dim64
    /\ \E i, j \in 0 .. run_out_dim - 1 : hw_y[i] # hw_y[j] /\ hw_y[i] < 0

(***************************************************************************)
(* C4.  With the placeholder weights and biases (all zero), every run of   *)
(* tinyformer_encode leaves output[s][d] = input[s][d] for every cell; an   *)
(* all-zero input gives an all-zero output whose checksum is 0.            *)
(***************************************************************************)
C4_PlaceholderIdentity ==
    trained = 0 =>
        \A n \in 1 .. Len(log) :
            /\ \A r \in Rows : \A c \in Cols : log[n].output[r][c] = log[n].input[r][c]
            /\ log[n].input = ZeroMatrix(S, D) =>
                   /\ log[n].output = ZeroMatrix(S, D)
                   /\ log[n].cksum = 0

\* Placeholder weights: a zero sample and then a mixed sample have been
\* encoded, both coming back unchanged, the first with checksum 0.
C4_Witness ==
    /\ trained = 0
    /\ Len(log) = 2
    /\ log[1].input = InputOf(0)
    /\ log[1].cksum = 0
    /\ log[2].input = InputOf(MaxInput)
    /\ log[2].input # ZeroMatrix(S, D)
    /\ log[2].output = log[2].input
    /\ log[2].cksum > 0

(***************************************************************************)
(* C5.  Two calls of tinyformer_encode in a row on the same input, with no *)
(* other call and no reset in between, produce the same output matrix:     *)
(* what the first call left in the working buffers does not reach the      *)
(* second call's result.                                                   *)
(***************************************************************************)
C5_EncodeTwiceSame ==
    (/\ Len(log) = 2
     /\ ~log[2].first_in_boot
     /\ log[1].input = log[2].input)
        => log[1].output = log[2].output

\* Trained weights, the same non-trivial sample encoded twice in one boot:
\* the second call started from non-zero working buffers, and the encoder
\* changed the sample.
C5_Witness ==
    /\ trained > 0
    /\ pc_enc = "idle"
    /\ Len(log) = 2
    /\ ~log[2].first_in_boot
    /\ log[1].build = log[2].build
    /\ log[1].input = log[2].input
    /\ log[2].output # log[2].input
    /\ log[1].output = log[2].output
    /\ q_buf # ZeroMatrix(S, D)
    /\ ffn_hidden # ZeroMatrix(S, FFN)

(***************************************************************************)
(* C6.  The same input encoded under two builds of the same weights gives  *)
(* the same output matrix and the same ENC_CKSUM (the sum of the output    *)
(* bytes read as unsigned): the result does not depend on the accelerator  *)
(* flags.  The builds are flashed in a cycle, so equality between          *)
(* neighbours of the cycle is equality between all six.                    *)
(***************************************************************************)
C6_SameInEveryBuild ==
    (/\ Len(log) = 2
     /\ log[1].build # log[2].build
     /\ log[1].input = log[2].input)
        => /\ log[1].output = log[2].output
           /\ log[1].cksum = log[2].cksum

\* Trained weights, one non-trivial sample encoded by a build without the
\* LUT and then by a build with it, the encoder having changed the sample.
C6_Witness ==
    /\ trained > 0
    /\ Len(log) = 2
    /\ "USE_EXP_LUT_HW" \notin log[1].build
    /\ "USE_EXP_LUT_HW" \in log[2].build
    /\ log[1].input = log[2].input
    /\ log[2].output # log[2].input
    /\ log[1].output = log[2].output
    /\ log[1].cksum = log[2].cksum
    /\ log[2].cksum > 0

(***************************************************************************)
(* C11.  Right after the clear-done pulse of gemv_clear_done the device is *)
(* idle with done cleared and the Y read cursor and the X, W and B write   *)
(* cursors at zero, whatever earlier runs streamed in or drained; so each  *)
(* run of test_gemv loads X and W from cell zero (the cursors follow the   *)
(* driver's loop index, the memories hold the operands at start) and reads *)
(* Y from cell zero.                                                       *)
(***************************************************************************)
C11_ClearDoneResets ==
    /\ bus.fn = "gemv_clear_done" =>
          /\ ~gemv_dev.done /\ ~gemv_dev.busy
          /\ gemv_dev.x_cur = 0 /\ gemv_dev.w_cur = 0
          /\ gemv_dev.b_cur = 0 /\ gemv_dev.y_ptr = 0
    /\ pc_gemv = "load_x" => gemv_dev.x_cur = loop_i
    /\ pc_gemv = "load_w" => gemv_dev.w_cur = loop_i
    /\ pc_gemv = "start" =>
          /\ \A c \in 0 .. run_len - 1 : gemv_dev.x_mem[c] = ref_x[c]
          /\ \A c \in 0 .. run_out_dim * run_len - 1 : gemv_dev.w_mem[c] = ref_w[c]
    /\ pc_gemv = "read_y" => gemv_dev.y_ptr = loop_i

\* The clear-done pulse of the last shape: the three earlier runs have
\* loaded operands and drained Y, and the cursors are back at zero.
C11_Witness ==
    /\ bus.fn = "gemv_clear_done"
    /\ pc_gemv = "load_x"
    /\ run_no = Len(Shapes)
    /\ seed = MaxSeed
    /\ gemv_dev.x_mem[0] # 0
    /\ gemv_dev.y_mem[0] # 0
    /\ hw_y[0] = gemv_dev.y_mem[0]
    /\ gemv_dev.x_cur = 0 /\ gemv_dev.w_cur = 0 /\ gemv_dev.y_ptr = 0
    /\ ~gemv_dev.done

(***************************************************************************)
(* C12.  When gemv_read_y(hw_y, out_dim) returns it has made exactly       *)
(* out_dim reads of Y_OUT and out_dim writes to Y_NEXT, alternating and    *)
(* starting with a read; hw_y[i] holds the device's i-th output element    *)
(* and the Y cursor stands at out_dim.  A read of Y_OUT leaves the cursor  *)
(* where it was: between a read and its Y_NEXT the cursor still equals the *)
(* loop index.                                                             *)
(***************************************************************************)
C12_ReadYAlternates ==
    /\ pc_gemv = "compare" =>
          /\ bus.fn = "gemv_read_y"
          /\ Len(bus.acc) = 2 * run_out_dim
          /\ \A n \in 1 .. Len(bus.acc) :
                IF n % 2 = 1
                THEN /\ bus.acc[n].op = "read" /\ bus.acc[n].reg = "Y_OUT"
                     /\ bus.acc[n].val = ToU32(gemv_dev.y_mem[(n - 1) \div 2])
                ELSE bus.acc[n].op = "write" /\ bus.acc[n].reg = "Y_NEXT"
          /\ \A i \in 0 .. run_out_dim - 1 : hw_y[i] = gemv_dev.y_mem[i]
          /\ gemv_dev.y_ptr = run_out_dim
    /\ pc_gemv \in {"read_y", "y_next"} => gemv_dev.y_ptr = loop_i

\* gemv_read_y has returned from draining the large shape: out_dim pairs
\* of accesses, distinct output elements, one negative.
C12_Witness ==
    /\ pc_gemv = "compare"
    /\ run_out_dim = Dim64
    /\ seed = MaxSeed
    /\ bus.fn = "gemv_read_y"
    /\ Len(bus.acc) = 2 * Dim64
    /\ gemv_dev.y_ptr = Dim64
    /\ \E i, j \in 0 .. run_out_dim - 1 : hw_y[i] # hw_y[j] /\ hw_y[j] < 0

(***************************************************************************)
(* C13.  gemv_wait_done only reads STATUS; while it polls, no read has     *)
(* shown the done bit, and it returns on the first read that shows it; it  *)
(* stays in its loop for as long as the device has not set done, however   *)
(* many polls that takes; and with a device that finishes and holds done,  *)
(* it eventually returns.                                                  *)
(***************************************************************************)
C13_WaitDone ==
    /\ [](bus.fn = "gemv_wait_done" =>
            /\ \A n \in 1 .. Len(bus.acc) :
                  bus.acc[n].op = "read" /\ bus.acc[n].reg = "STATUS"
            /\ \A n \in 1 .. Len(bus.acc) - 1 :
                  ~HasBit(bus.acc[n].val, GEMV_STATUS_DONE)
            /\ pc_gemv = "wait_done" =>
                  ~HasBit(bus.acc[Len(bus.acc)].val, GEMV_STATUS_DONE)
            /\ pc_gemv # "wait_done" =>
                  /\ HasBit(bus.acc[Len(bus.acc)].val, GEMV_STATUS_DONE)
                  /\ HasBit(status, GEMV_STATUS_DONE))
    /\ [][(pc_gemv = "wait_done" /\ ~gemv_dev.done) => pc_gemv' = "wait_done"]_vars
    /\ [][(pc_gemv = "wait_done" /\ pc_gemv' # "wait_done") =>
             (pc_gemv' = "read_y" /\ gemv_dev.done /\ UNCHANGED gemv_dev)]_vars
    /\ (pc_gemv = "wait_done") ~> (pc_gemv = "read_y")

\* gemv_wait_done has just returned after polling a busy device as often
\* as the trace can hold, the last read alone showing done.
C13_Witness ==
    /\ pc_gemv = "read_y"
    /\ bus.fn = "gemv_wait_done"
    /\ Len(bus.acc) = MaxBus
    /\ bus.acc[1].val = GEMV_STATUS_BUSY
    /\ bus.acc[MaxBus].val = GEMV_STATUS_DONE
    /\ status = GEMV_STATUS_DONE
    /\ gemv_dev.done /\ ~gemv_dev.busy

(***************************************************************************)
(* C14.  gemv_start(len, out_dim, enable_bias) makes exactly one write, to *)
(* CTRL, of a word with bit 0 set, bit 4 set iff len is the large size,    *)
(* bit 5 set iff out_dim is the large size, bit 6 set iff enable_bias is   *)
(* not zero, and bit 3 clear.  gemv_clear_done makes exactly one write, to *)
(* CTRL, of the word with only bit 3 set.  No write has both bit 0 and     *)
(* bit 3.                                                                  *)
(***************************************************************************)
C14_CtrlWords ==
    /\ bus.fn = "gemv_start" =>
          /\ Len(bus.acc) = 1
          /\ bus.acc[1].op = "write" /\ bus.acc[1].reg = "CTRL"
          /\ HasBit(bus.acc[1].val, Pow2(0))
          /\ HasBit(bus.acc[1].val, Pow2(4)) <=> (run_len = Dim64)
          /\ HasBit(bus.acc[1].val, Pow2(5)) <=> (run_out_dim = Dim64)
          /\ HasBit(bus.acc[1].val, Pow2(6)) <=> (run_bias # 0)
          /\ ~HasBit(bus.acc[1].val, Pow2(3))
    /\ bus.fn = "gemv_clear_done" =>
          /\ Len(bus.acc) = 1
          /\ bus.acc[1].op = "write" /\ bus.acc[1].reg = "CTRL"
          /\ bus.acc[1].val = Pow2(3)
    /\ \A n \in 1 .. Len(bus.acc) :
          bus.acc[n].reg = "CTRL" =>
              ~(HasBit(bus.acc[n].val, Pow2(0)) /\ HasBit(bus.acc[n].val, Pow2(3)))

\* gemv_start has been called with the large length, the small out_dim and
\* enable_bias = 2: the word is start + length + bias, 81.
C14_Witness ==
    /\ bus.fn = "gemv_start"
    /\ run_len = Dim64 /\ run_out_dim = Dim32 /\ run_bias = 2
    /\ bus.acc = << Access("write", "CTRL", 81) >>
    /\ gemv_dev.busy /\ gemv_dev.len64 /\ ~gemv_dev.out64 /\ gemv_dev.bias

(***************************************************************************)
(* C15: each self-test (test_dot8, test_gemv, test_lut) returns 0 exactly  *)
(* when every comparison it makes matched, and prints its PASS line only   *)
(* then; at the first mismatch it prints one diagnostic line and returns   *)
(* non-zero at once: the failing comparison is the last one made, nothing  *)
(* is retried and no PASS line follows.                                    *)
(***************************************************************************)
\* The comparisons of a run in which nothing fails.
Comparisons ==
    IF test = "test_dot8" THEN NITER
    ELSE IF test = "test_lut" THEN 16 + 16
    ELSE SumTo([k \in 0 .. Len(Shapes) - 1 |-> Shapes[k + 1].out_dim], Len(Shapes))

PassLine ==
    IF test = "test_dot8" THEN "DOT8 PASS"
    ELSE IF test = "test_lut" THEN "LUT PASS" ELSE "GEMV self-test PASS"

AllMatched == \A k \in 1 .. Len(checks) : checks[k]

FirstMismatchIsLast ==
    /\ Len(checks) >= 1
    /\ ~checks[Len(checks)]
    /\ \A k \in 1 .. Len(checks) - 1 : checks[k]

C15_SelfTestVerdict ==
    /\ ret \in {<<>>, <<0>>, <<-1>>}
    /\ ret = <<>> => uart = <<>> /\ AllMatched /\ Len(checks) < Comparisons
    /\ ret = <<0>> <=> AllMatched /\ Len(checks) = Comparisons
    /\ ret = <<0>> => uart = <<PassLine>>
    /\ ret = <<-1>> <=> ~AllMatched
    /\ ret = <<-1>> => FirstMismatchIsLast /\ Len(uart) = 1 /\ uart[1] # PassLine
    /\ ret # <<>> =>
          /\ test = "test_dot8" => pc_dot8 = "returned"
          /\ test = "test_lut" => pc_lut = "returned"
          /\ test = "test_gemv" => pc_gemv \in {"pass", "fail"}

\* test_dot8 has returned -1 from its second iteration, after one that matched.
C15_Witness ==
    /\ test = "test_dot8"
    /\ ret = <<-1>>
    /\ checks = <<TRUE, FALSE>>
    /\ uart = <<"DOT8 FAIL iter= sw= hw=">>

(***************************************************************************)
(* C16: in the attention weighted sum, for every query i and dimension d,  *)
(* the products of the truncated Q15 weight w_ij = floor((exp_buf[j] <<    *)
(* 15) / sum_exp) and V[j][d] are accumulated over all j, the accumulated  *)
(* sum is then shifted right by 15 and that result is saturated:           *)
(* context[i][d] = saturate((sum over j of w_ij * V[j][d]) >> 15).         *)
(***************************************************************************)
\* tinyformer.c 214-218, the formula of the comment read as the sum shifted.
ContextSumThenShift(eb, vm, d) ==
    saturate_int32_to_int8(Sar(SumTo([j \in Rows |-> WeightQ15(eb, j) * vm[j][d]], S), 15))

C16_ContextIsShiftedSum ==
    pc_enc = "output_projection" =>
        \A i \in Rows : \A d \in Cols :
            attn_out[i][d] = ContextSumThenShift(QueryExp(QueryScores(q_buf, k_buf, i)), v_buf, d)

(***************************************************************************)
(* C17: every output row of a linear projection is out[od] = saturate(     *)
(* (bias[od] + sum over id of W[od][id] * in[id]) >> 7) with an arithmetic *)
(* (floor) shift, so an accumulator in [-128, -1] gives -1, not 0; this    *)
(* holds for all int8 weights, biases and inputs, the 32-bit accumulator   *)
(* never overflowing.                                                      *)
(***************************************************************************)
\* The accumulator of the row, by its definition.
RowAcc == mv_b[0] + SumTo([id \in Cols |-> mv_W[0][id] * mv_in[id]], D)

\* The largest magnitude an accumulator of d_in int8 products and one int8
\* bias can have.
AccBound(d_in) == 128 + d_in * 128 * 128

\* The floor of sum / 128: the q with 128 q <= sum < 128 (q + 1).
FloorShift7(sum) ==
    CHOOSE q \in -(AccBound(D) \div 128) - 1 .. (AccBound(D) \div 128) + 1 :
        128 * q <= sum /\ sum < 128 * (q + 1)

Clamp8(q) == IF q > 127 THEN 127 ELSE IF q < -128 THEN -128 ELSE q

C17_ProjectionRow ==
    pc_mv # "matvec" =>
        /\ mv_out[0] = Clamp8(FloorShift7(RowAcc))
        /\ RowAcc \in -128 .. -1 => mv_out[0] = -1
        /\ -AccBound(D) <= RowAcc /\ RowAcc <= AccBound(D)
        /\ AccBound(TINYFORMER_D) <= INT32_MAX

\* A row whose accumulator is -1 has produced -1.
C17_Witness == pc_mv = "ffn" /\ RowAcc = -1 /\ mv_out[0] = -1

(***************************************************************************)
(* C18: for every query and all int8 Q and K the divisor of the Q15        *)
(* weights is never zero: the running maximum is the largest of the S      *)
(* scaled scores, so every shifted score is <= 0 and at least one is 0,    *)
(* which puts sum_exp in [1204, 16384] (16384 when all scores are equal);  *)
(* the branch that substitutes 1 is never taken.                           *)
(***************************************************************************)
\* The range of sum_exp for n keys: one entry 0 and the others entry 15, up
\* to all of them entry 0.
SumExpLow(n) == exp_lut[0 + 1] + (n - 1) * exp_lut[15 + 1]
SumExpHigh(n) == n * exp_lut[0 + 1]

C18_DivisorNeverZero ==
    /\ SumExpLow(TINYFORMER_S) = 1204
    /\ SumExpHigh(TINYFORMER_S) = 16384
    /\ pc_enc = "output_projection" =>
          /\ exp_buf = QueryExp(QueryScores(q_buf, k_buf, S - 1))
          /\ \A i \in Rows :
                LET sc == QueryScores(q_buf, k_buf, i)
                    max_score == MaxScore(sc, S)
                    eb == QueryExp(sc)
                    sum_exp == SumTo(eb, S)
                IN  /\ \A j \in Rows : sc[j] - max_score <= 0
                    /\ \E j \in Rows : sc[j] - max_score = 0
                    /\ \E j \in Rows : eb[j] = exp_lut[0 + 1]
                    /\ SumExpLow(S) <= sum_exp /\ sum_exp <= SumExpHigh(S)
                    /\ (\A j \in Rows : sc[j] = sc[0]) => sum_exp = SumExpHigh(S)
                    /\ sum_exp # 0
                    /\ SumExp(eb) = sum_exp

\* The last query has one key at the maximum and every other key 15 or
\* more steps below it: sum_exp is at the low end of its range.
C18_Witness ==
    /\ pc_enc = "output_projection"
    /\ SumTo(exp_buf, S) = SumExpLow(S)
    /\ \E j \in Rows : scores[j] < 0

(***************************************************************************)
(* C19: every hidden value of the feed-forward layer is min(127, max(0,    *)
(* (b_ff1[d] + sum over k of W_ff1[d][k] * in[k]) >> 7)) and so lies in    *)
(* [0, 127]; clamping the negative accumulator to zero before the          *)
(* saturation gives what ReLU of the saturated accumulator gives, for      *)
(* every accumulator.                                                      *)
(***************************************************************************)
Min2(m, n) == IF m < n THEN m ELSE n
Max2(m, n) == IF m > n THEN m ELSE n
ReLU(q) == IF q < 0 THEN 0 ELSE q

C19_HiddenIsReluOfSaturated ==
    pc_mv = "done" =>
        /\ mv_hidden = Min2(127, Max2(0, FloorShift7(RowAcc)))
        /\ mv_hidden \in 0 .. 127
        /\ mv_hidden = ReLU(Clamp8(FloorShift7(RowAcc)))
        /\ mv_hidden = ReLU(mv_out[0])

\* A shifted accumulator below -128: the clamp to zero and the saturation
\* could differ here, and the unit is 0.
C19_Witness == pc_mv = "done" /\ FloorShift7(RowAcc) < -128 /\ mv_hidden = 0

(***************************************************************************)
(* C20: every invocation of a self-test draws its operands from the        *)
(* sequence state' = (state * 1664525 + 1013904223) mod 2^32 started at    *)
(* seed 1, each sample the top byte of the new state as an int8; so the    *)
(* operand sets of a second invocation of test_dot8 or test_gemv in the    *)
(* same process are those of the first.                                    *)
(***************************************************************************)
\* The t-th operand set of the self-test when the sequence starts at seed 1:
\* iteration t of test_dot8, or the t-th run_one of test_gemv.
FromSeedOne(t) ==
    IF test = "test_dot8"
    THEN LET first == 8 * (t - 1) IN
         [a |-> Stored([i \in LaneIdx |-> LcgDraw(LcgSeed, first + 2 * i + 1)]),
          b |-> Stored([i \in LaneIdx |-> LcgDraw(LcgSeed, first + 2 * i + 2)])]
    ELSE LET len == Shapes[t].len
             out_dim == Shapes[t].out_dim
         IN  [x |-> Stored([c \in 0 .. len - 1 |-> LcgDraw(LcgSeed, c + 1)]),
              w |-> Stored([c \in 0 .. out_dim * len - 1 |-> LcgDraw(LcgSeed, len + c + 1)])]

C20_SameOperandsEveryInvocation ==
    \A inv \in 1 .. Len(drawn) : \A n \in 1 .. Len(drawn[inv]) :
        /\ drawn[inv][n] = FromSeedOne(n)
        /\ n <= Len(drawn[1]) => drawn[inv][n] = drawn[1][n]

(***************************************************************************)
(* C21: after any sequence of earlier tinyformer_encode calls, on any      *)
(* inputs, encode(x) gives what it gives on freshly zeroed working         *)
(* buffers: every cell of q_buf, k_buf, v_buf, attn_out, ffn_hidden and    *)
(* ffn_out that a call reads was written earlier in that call, and every   *)
(* cell of scores and exp_buf read for query i was written earlier in the  *)
(* iteration of that query.                                                *)
(***************************************************************************)
\* The attention stage of tinyformer_encode on working buffers that hold zero.
FreshContext(inp) ==
    LET zero == ZeroMatrix(S, D)
        q == Stored(linear_projection_all(inp, zero, W_q, b_q))
        k == Stored(linear_projection_all(inp, zero, W_k, b_k))
        vm == Stored(linear_projection_all(inp, zero, W_v, b_v))
    IN  attention_single_head(q, k, vm).context

\* tinyformer_encode on working buffers that hold zero.
EncodeFresh(inp) ==
    LET zero == ZeroMatrix(S, D)
        context == Stored(FreshContext(inp))
        projected == Stored(linear_projection_all(context, zero, W_o, b_o))
        y == Stored(residual_add(inp, projected))
        ffn == ffn_apply(y)
    IN  residual_add(y, Stored(ffn.out))

C21_FreshBuffers ==
    /\ stale = {}
    /\ pc_enc = "output_projection" => attn_out = FreshContext(input)
    /\ (pc_enc = "idle" /\ calls > 0) => encoded = EncodeFresh(input)

\* The third or a later call of a boot, after a call on another input, with
\* trained weights: the buffers it started from were neither zero nor what
\* this call writes, and the output is not the input.
C21_Witness ==
    /\ pc_enc = "idle"
    /\ trained > 0
    /\ calls = 2
    /\ Len(log) = 2
    /\ log[1].input # log[2].input
    /\ log[1].output # log[2].output
    /\ encoded # input
    /\ query = S
    /\ wrote # {}

(***************************************************************************)
(* C22: no narrowing cast of the attention stage changes a value: for all  *)
(* int8 Q, K and V, (score[j] - max_score) >> 3 lies in [-4080, 0] and is  *)
(* kept by the cast to int16; every Q15 weight (exp_buf[j] << 15) /        *)
(* sum_exp is at most 32768 (exp_buf[j] <= sum_exp) and is kept by the     *)
(* cast to uint16; the weights of one query sum to at most 32768.          *)
(***************************************************************************)
\* The least (score - max_score) >> 3 for rows of d_in int8 products: the
\* least score, 128 * -127 in every column, under the greatest, -128 * -128.
ShiftedLow(d_in) == Sar(Sar(d_in * 128 * (-127), 5) - Sar(d_in * 128 * 128, 5), 3)

C22_CastsKeepValues ==
    /\ ShiftedLow(TINYFORMER_D) = -4080
    /\ pc_enc = "output_projection" =>
          \A i \in Rows :
              LET sc == QueryScores(q_buf, k_buf, i)
                  max_score == MaxScore(sc, S)
                  eb == QueryExp(sc)
                  sum_exp == SumExp(eb)
                  wide == [j \in Rows |-> (eb[j] * 32768) \div sum_exp]
              IN  /\ \A j \in Rows :
                        LET shifted == Sar(sc[j] - max_score, 3) IN
                            /\ ShiftedLow(D) <= shifted /\ shifted <= 0
                            /\ I16(shifted) = shifted
                            /\ eb[j] <= sum_exp
                            /\ wide[j] <= 32768
                            /\ WeightQ15(eb, j) = wide[j]
                  /\ SumTo([j \in Rows |-> WeightQ15(eb, j)], S) <= 32768

\* The last query met the least shifted score: a key at 128 * -127 in every
\* column under a key at -128 * -128 in every column.
C22_Witness ==
    /\ pc_enc = "output_projection"
    /\ \E j \in Rows : Sar(scores[j] - MaxScore(scores, S), 3) = ShiftedLow(D)
    /\ \E j \in Rows : exp_buf[j] = exp_lut[15 + 1]

====
